---- MODULE Spec2Model ----
(***************************************************************************)
(* A model of the wordle-solver engine: the feedback function, the word    *)
(* groups with their statistics, solution filtering, partitioning and      *)
(* ranking, guess elimination, the best_guesses search (sequential and     *)
(* multiprocess) and the guess cache of the Context.                       *)
(*                                                                         *)
(* Letters are the numbers 1..NumLetters (alphabetical order is numeric    *)
(* order), a word is a tuple of word_length letters, a result is a tuple   *)
(* of word_length symbols "b" (absent), "y" (present), "g" (correct).      *)
(***************************************************************************)
EXTENDS Integers, Sequences, FiniteSets, TLC

\* Bounds of the model.
NumLetters == 3
word_length == 3
DictSize == 6
MaxSolutions == 3

letters == 1..NumLetters
positions == 1..word_length
Words == [positions -> letters]
Symbols == {"b", "y", "g"}
Results == [positions -> Symbols]

\* The number of words over the alphabet.
RECURSIVE Power(_, _)
Power(base, exp) == IF exp = 0 THEN 1 ELSE base * Power(base, exp - 1)

\* The word with a given rank in alphabetical order (rank 0 is the first).
WordOfRank(rank) ==
    [index \in positions |->
        ((rank \div Power(NumLetters, word_length - index)) % NumLetters) + 1]

\* The word list of the modelled game, DictSize words: the first words in
\* alphabetical order, which differ in their last letter only, and words
\* spread over Words.
Dictionary ==
    {WordOfRank(IF k < NumLetters THEN k
                ELSE (k * 5) % Power(NumLetters, word_length)) :
        k \in 0..(DictSize - 1)}

Range(f) == {f[x] : x \in DOMAIN f}

Min(a, b) == IF a < b THEN a ELSE b

\* None, for a word, a result or a returned value.
None == <<>>

\* str.count
count(word, letter) == Cardinality({index \in positions : word[index] = letter})

----------------------------------------------------------------------------
(* wordle_result *)

\* First pass: correct and absent, "u" is the unassigned temporary value.
FirstPass(guess, solution) ==
    [index \in positions |->
        IF guess[index] = solution[index] THEN "g"
        ELSE IF guess[index] \notin Range(solution) THEN "b"
        ELSE "u"]

\* Second pass: count the letters of the solution that are not correct.
CountLetters(result, solution) ==
    [l \in letters |->
        Cardinality({index \in positions :
            result[index] # "g" /\ solution[index] = l})]

\* A third pass that never decrements the remaining letters.
RECURSIVE ThirdPassNoDecrement(_, _, _, _)
ThirdPassNoDecrement(result, solution_letters, guess, index) ==
    IF index > word_length THEN result
    ELSE IF result[index] = "u"
    THEN IF solution_letters[guess[index]] > 0
         THEN ThirdPassNoDecrement([result EXCEPT ![index] = "y"],
                    solution_letters, guess, index + 1)
         ELSE ThirdPassNoDecrement([result EXCEPT ![index] = "b"],
                    solution_letters, guess, index + 1)
    ELSE ThirdPassNoDecrement(result, solution_letters, guess, index + 1)

\* Third pass: mark present, left to right, while letters remain.
RECURSIVE ThirdPass(_, _, _, _)
ThirdPass(result, solution_letters, guess, index) ==
    IF index > word_length THEN result
    ELSE IF result[index] = "u"
    THEN IF solution_letters[guess[index]] > 0
         THEN ThirdPass([result EXCEPT ![index] = "y"],
                    [solution_letters EXCEPT ![guess[index]] = @ - 1],
                    guess, index + 1)
         ELSE ThirdPass([result EXCEPT ![index] = "b"],
                    solution_letters, guess, index + 1)
    ELSE ThirdPass(result, solution_letters, guess, index + 1)

wordle_result(guess, solution) ==
    LET first == FirstPass(guess, solution)
    IN  ThirdPass(first, CountLetters(first, solution), guess, 1)

----------------------------------------------------------------------------
(* WordGroup: the word list, the changed flag and the statistics *)

\* The statistics of a group that never prepared them: _word_breakdown,
\* _word_contains and _letter_count do not exist before _prepare_stats.
NoBreakdown == [index \in positions |-> [l \in letters |-> {}]]
NoContains == [l \in letters |-> {}]
NoLetterCount == [l \in letters |-> [c \in positions |-> {}]]

\* WordGroup.__init__ from a list of words.
WordGroup(word_list) ==
    [word_list |-> word_list,
     changed |-> TRUE,
     word_breakdown |-> NoBreakdown,
     word_contains |-> NoContains,
     letter_count |-> NoLetterCount]

\* The word breakdown of a word list: per position and letter, the words
\* that have the letter at the position.
Breakdown(word_list) ==
    [index \in positions |->
        [l \in letters |-> {word \in word_list : word[index] = l}]]

\* Word contains, built from the breakdown as the code does.
Contains(word_breakdown) ==
    [l \in letters |-> UNION {word_breakdown[index][l] : index \in positions}]

\* A letter count whose bucket c has the words with c or more of the letter.
LetterCountAtLeast(word_list) ==
    [l \in letters |->
        [c \in positions |->
            {word \in word_list : l \in Range(word) /\ count(word, l) >= c}]]

\* Letter count: a bucket per letter and number of occurrences in the word.
LetterCount(word_list) ==
    [l \in letters |->
        [c \in positions |->
            {word \in word_list : l \in Range(word) /\ count(word, l) = c}]]

\* WordGroup._prepare_stats: nothing to do unless the group changed.
prepare_stats(group) ==
    IF ~group.changed THEN group
    ELSE [word_list |-> group.word_list,
          changed |-> FALSE,
          word_breakdown |-> Breakdown(group.word_list),
          word_contains |-> Contains(Breakdown(group.word_list)),
          letter_count |-> LetterCount(group.word_list)]

\* WordGroup.__init__ from a WordGroup (copy): the statistics of the
\* original are prepared first and then shared, the word list is copied.
\* The first component is the original after the call, the second the copy.
copy(group) ==
    LET prepared == prepare_stats(group)
    IN  <<prepared, prepared>>

\* WordGroup.excluded_letters, on a group whose statistics are prepared.
excluded_letters(group) ==
    {l \in letters : group.word_contains[l] = {}}

----------------------------------------------------------------------------
(* SolutionGroup.filter_solutions *)

\* Is the letter at this index of the word also somewhere else in the word.
Elsewhere(word, index) ==
    \E other \in positions : other # index /\ word[other] = word[index]

\* A position step that removes every word with an absent letter, also
\* when the word played has the letter elsewhere.
FilterIndexAlwaysAbsent(word_list, group, word, result, index) ==
    LET at_index == group.word_breakdown[index][word[index]]
        somewhere == group.word_contains[word[index]]
    IN  IF result[index] = "g" THEN word_list \cap at_index
        ELSE IF result[index] = "y" THEN (word_list \ at_index) \cap somewhere
        ELSE (word_list \ at_index) \ somewhere

\* A position step that, for a correct letter, takes the words of the whole
\* alphabet with the letter at the position in place of the intersection
\* with the words of the group.
FilterIndexCorrectReplaces(word_list, group, word, result, index) ==
    LET at_index == group.word_breakdown[index][word[index]]
        somewhere == group.word_contains[word[index]]
    IN  IF result[index] = "g" THEN {w \in Words : w[index] = word[index]}
        ELSE IF result[index] = "y" THEN (word_list \ at_index) \cap somewhere
        ELSE IF ~Elsewhere(word, index) THEN (word_list \ at_index) \ somewhere
        ELSE word_list \ at_index

\* One step of the loop over the positions.
FilterIndex(word_list, group, word, result, index) ==
    LET at_index == group.word_breakdown[index][word[index]]
        somewhere == group.word_contains[word[index]]
    IN  IF result[index] = "g" THEN word_list \cap at_index
        ELSE IF result[index] = "y" THEN (word_list \ at_index) \cap somewhere
        ELSE IF ~Elsewhere(word, index) THEN (word_list \ at_index) \ somewhere
        ELSE word_list \ at_index

RECURSIVE FilterPositions(_, _, _, _, _)
FilterPositions(word_list, group, word, result, index) ==
    IF index > word_length THEN word_list
    ELSE FilterPositions(FilterIndex(word_list, group, word, result, index),
            group, word, result, index + 1)

\* The number of positions of the letter in the word with the given symbol.
SymbolCount(word, result, letter, symbol) ==
    Cardinality({index \in positions :
        word[index] = letter /\ result[index] = symbol})

\* A filter for a repeated letter that takes the count as a lower limit
\* even when an occurrence is absent.
FilterRepeatedLowerLimit(word_list, group, word, result, letter) ==
    LET absent_count == SymbolCount(word, result, letter, "b")
        present_count == SymbolCount(word, result, letter, "y")
        correct_count == SymbolCount(word, result, letter, "g")
    IN  IF absent_count > 0 /\ present_count = 0 /\ correct_count = 0
        THEN word_list \ group.word_contains[letter]
        ELSE word_list \ UNION {group.letter_count[letter][c] :
                            c \in 1..(present_count + correct_count - 1)}

\* The further filter for one letter that the word repeats.
FilterRepeated(word_list, group, word, result, letter) ==
    LET absent_count == SymbolCount(word, result, letter, "b")
        present_count == SymbolCount(word, result, letter, "y")
        correct_count == SymbolCount(word, result, letter, "g")
    IN  IF absent_count > 0 /\ (present_count > 0 \/ correct_count > 0)
        THEN word_list \cap group.letter_count[letter][present_count + correct_count]
        ELSE IF absent_count > 0
        THEN word_list \ group.word_contains[letter]
        ELSE word_list \ UNION {group.letter_count[letter][c] :
                            c \in 1..(present_count + correct_count - 1)}

\* The loop over the letters of the word, the repeated ones filtered.
RECURSIVE FilterLetters(_, _, _, _, _)
FilterLetters(word_list, group, word, result, letter) ==
    IF letter > NumLetters THEN word_list
    ELSE IF count(word, letter) > 1
    THEN FilterLetters(FilterRepeated(word_list, group, word, result, letter),
            group, word, result, letter + 1)
    ELSE FilterLetters(word_list, group, word, result, letter + 1)

\* A filter that removes no solution.
FilterNothing(group, word, result) == prepare_stats(group)

\* filter_solutions: the group after the call.
filter_solutions(group, word, result) ==
    LET prepared == prepare_stats(group)
        remaining == FilterLetters(
            FilterPositions(prepared.word_list, prepared, word, result, 1),
            prepared, word, result, 1)
    IN  [prepared EXCEPT
            !.word_list = remaining,
            !.changed = Cardinality(prepared.word_list) # Cardinality(remaining)]

----------------------------------------------------------------------------
(* _result_key, sortdict, SolutionGroup.partition *)

\* A space that does not count the absent letters.
SpaceWithoutAbsent(result) ==
      Cardinality({index \in positions : result[index] = "y"}) * 2
    + Cardinality({index \in positions : result[index] = "g"}) * 4

\* The space of a result: lower is a larger space.
space(result) ==
      Cardinality({index \in positions : result[index] = "b"})
    + Cardinality({index \in positions : result[index] = "y"}) * 2
    + Cardinality({index \in positions : result[index] = "g"}) * 4

\* The tie breaker: the symbols in the order "byg".
sort_order(result) ==
    [index \in positions |->
        IF result[index] = "b" THEN 0 ELSE IF result[index] = "y" THEN 1 ELSE 2]

\* Comparison of two tuples of numbers, as Python compares tuples.
RECURSIVE TupleLess(_, _, _)
TupleLess(left, right, index) ==
    IF index > word_length THEN FALSE
    ELSE IF left[index] # right[index] THEN left[index] < right[index]
    ELSE TupleLess(left, right, index + 1)

\* _result_key(left) < _result_key(right)
result_key_less(left, right) ==
    \/ space(left) < space(right)
    \/ /\ space(left) = space(right)
       /\ TupleLess(sort_order(left), sort_order(right), 1)

\* sortdict by _result_key: the keys of the dictionary in sorted order.
RECURSIVE sortdict(_)
sortdict(keys) ==
    IF keys = {} THEN <<>>
    ELSE LET first == CHOOSE r \in keys :
                        \A other \in keys : ~result_key_less(other, r)
         IN  <<first>> \o sortdict(keys \ {first})

\* The keys of a dictionary in the order it yields them when it is not
\* sorted (insertion order, which follows the iteration of the set).
RECURSIVE unsorted(_)
unsorted(keys) ==
    IF keys = {} THEN <<>>
    ELSE LET first == CHOOSE r \in keys : TRUE
         IN  <<first>> \o unsorted(keys \ {first})

\* A partition loop that keeps only the last solution of each result.
RECURSIVE PartitionLoopReplace(_, _, _)
PartitionLoopReplace(todo, guess, partitions) ==
    IF todo = {} THEN partitions
    ELSE LET solution == CHOOSE s \in todo : TRUE
             result == wordle_result(guess, solution)
         IN  PartitionLoopReplace(todo \ {solution}, guess,
                [r \in DOMAIN partitions \cup {result} |->
                    IF r = result THEN {solution} ELSE partitions[r]])

\* The loop of partition over the solutions: partitions.setdefault(result,
\* set()).add(solution).
RECURSIVE PartitionLoop(_, _, _)
PartitionLoop(todo, guess, partitions) ==
    IF todo = {} THEN partitions
    ELSE LET solution == CHOOSE s \in todo : TRUE
             result == wordle_result(guess, solution)
         IN  PartitionLoop(todo \ {solution}, guess,
                [r \in DOMAIN partitions \cup {result} |->
                    IF r = result
                    THEN (IF r \in DOMAIN partitions THEN partitions[r] ELSE {})
                            \cup {solution}
                    ELSE partitions[r]])

\* partition: the sequence of (result, solution part) it yields.
partition(group, guess, sort) ==
    LET partitions == PartitionLoop(group.word_list, guess, <<>>)
        keys == IF sort THEN sortdict(DOMAIN partitions)
                ELSE unsorted(DOMAIN partitions)
    IN  [k \in 1..Len(keys) |->
            [result |-> keys[k], solution_part |-> partitions[keys[k]]]]

----------------------------------------------------------------------------
(* SolutionGroup.guess_rank, GuessGroup.filter_guesses *)

\* A rank whose tie breaker grows with the partitions.
RankPartitionsGrow(part, partitions) ==
    [num |-> part * (partitions + 1) + partitions, den |-> partitions + 1]

\* A rank with 1 / partitions for the tie breaker.
RankOverPartitions(part, partitions) ==
    [num |-> part * partitions + 1, den |-> partitions]

\* The rank of a guess is the size of its largest partition plus
\* 1 / (partitions + 1), kept as the fraction num / den in lowest terms.
Rank(part, partitions) ==
    [num |-> part * (partitions + 1) + 1, den |-> partitions + 1]

\* left < right on ranks.
rank_less(left, right) == left.num * right.den < right.num * left.den

\* rank < 2
rank_below_two(rank) == rank.num < 2 * rank.den

\* The loop of guess_rank over the sorted partitions: the first largest
\* partition gives the rank and the foil.
RECURSIVE RankLoop(_, _, _, _)
RankLoop(parts, k, rank, foil) ==
    IF k > Len(parts) THEN [rank |-> rank, foil |-> foil]
    ELSE IF Cardinality(parts[k].solution_part) > rank
    THEN RankLoop(parts, k + 1, Cardinality(parts[k].solution_part), parts[k].result)
    ELSE RankLoop(parts, k + 1, rank, foil)

\* assert rank, "No partitions found": whether the assertion of guess_rank
\* holds.
rank_found(group, guess) ==
    RankLoop(partition(group, guess, TRUE), 1, 0, None).rank # 0

guess_rank(group, guess) ==
    LET parts == partition(group, guess, TRUE)
        found == RankLoop(parts, 1, 0, None)
    IN  [rank |-> Rank(found.rank, Len(parts)), foil |-> found.foil]

\* The number of excluded letters of a word.
ExcludedCount(word, excluded) ==
    Cardinality({index \in positions : word[index] \in excluded})

\* suspect_breakdown with the test of the excluded letters inverted: the
\* words that contain letters of the solutions, by the count of these.
SuspectBreakdownInverted(group, excluded) ==
    [c \in positions |->
        {word \in UNION {group.word_contains[l] : l \in letters \ excluded} :
            ExcludedCount(word, letters \ excluded) = c}]

\* suspect_breakdown: the words that contain excluded letters, by count.
SuspectBreakdown(group, excluded) ==
    [c \in positions |->
        {word \in UNION {group.word_contains[l] : l \in excluded} :
            ExcludedCount(word, excluded) = c}]

\* The words that have every non-excluded letter of the word at its place.
RECURSIVE Matching(_, _, _, _, _)
Matching(group, word, excluded, index, superior_words) ==
    IF index > word_length THEN superior_words
    ELSE IF word[index] \in excluded
    THEN Matching(group, word, excluded, index + 1, superior_words)
    ELSE Matching(group, word, excluded, index + 1,
            superior_words \cap group.word_breakdown[index][word[index]])

\* superior_words of a suspect word: the matching words, without the
\* suspects of the same or a larger count.
SuperiorWords(group, word, excluded, suspect_breakdown) ==
    Matching(group, word, excluded, 1, group.word_list)
        \ UNION {suspect_breakdown[other_count] :
                    other_count \in ExcludedCount(word, excluded)..word_length}

\* The loop over the counts, from word_length - 1 down to 1.
RECURSIVE FilterCounts(_, _, _, _, _)
FilterCounts(word_list, group, excluded, suspect_breakdown, c) ==
    IF c < 1 THEN word_list
    ELSE FilterCounts(
            word_list \ {word \in suspect_breakdown[c] :
                SuperiorWords(group, word, excluded, suspect_breakdown) # {}},
            group, excluded, suspect_breakdown, c - 1)

\* A guess group that becomes all the words of the letters that are not
\* excluded, as the group of all words does.
AllWordsGuesses(group, excluded) ==
    LET prepared == prepare_stats(group)
        remaining == {word \in Words : \A index \in positions : word[index] \notin excluded}
    IN  [prepared EXCEPT
            !.word_list = remaining,
            !.changed = Cardinality(prepared.word_list) # Cardinality(remaining)]

\* GuessGroup.filter_guesses: the group after the call.
filter_guesses(group, excluded) ==
    LET prepared == prepare_stats(group)
        suspect_breakdown == SuspectBreakdown(prepared, excluded)
        remaining == FilterCounts(
            prepared.word_list \ suspect_breakdown[word_length],
            prepared, excluded, suspect_breakdown, word_length - 1)
    IN  [prepared EXCEPT
            !.word_list = remaining,
            !.changed = Cardinality(prepared.word_list) # Cardinality(remaining)]

----------------------------------------------------------------------------
(* best_guesses *)

\* best_rank, best_guesses and best_foils before any guess is ranked.
NoBest == [rank |-> [num |-> 0, den |-> 1], guesses |-> <<>>, foils |-> <<>>]

\* A tracking that keeps the guesses of the greatest rank.
TrackWorst(best, guess, ranked) ==
    IF best = NoBest \/ rank_less(best.rank, ranked.rank)
    THEN [rank |-> ranked.rank, guesses |-> <<guess>>, foils |-> <<ranked.foil>>]
    ELSE IF ranked.rank = best.rank
    THEN [best EXCEPT !.guesses = Append(@, guess),
                      !.foils = Append(@, ranked.foil)]
    ELSE best

\* The best rank with its guesses and foils, after one more ranked guess.
Track(best, guess, ranked) ==
    IF best = NoBest \/ rank_less(ranked.rank, best.rank)
    THEN [rank |-> ranked.rank, guesses |-> <<guess>>, foils |-> <<ranked.foil>>]
    ELSE IF ranked.rank = best.rank
    THEN [best EXCEPT !.guesses = Append(@, guess),
                      !.foils = Append(@, ranked.foil)]
    ELSE best

\* An exit as soon as the best rank is below 2.
EarlyExitAnywhere(i, nonsolution_start, best) ==
    rank_below_two(best.rank)

\* The single process loop stops after guess i (counted from 1) when the
\* solutions are all ranked and the best rank is below 2.
EarlyExit(i, nonsolution_start, best) ==
    i = nonsolution_start /\ rank_below_two(best.rank)

\* The single process loop over the guesses in the order of iteration.
RECURSIVE SingleLoop(_, _, _, _, _)
SingleLoop(group, order, i, best, nonsolution_start) ==
    IF i > Len(order) THEN [best |-> best, ranked |-> Len(order), early |-> FALSE]
    ELSE LET tracked == Track(best, order[i], guess_rank(group, order[i]))
         IN  IF EarlyExit(i, nonsolution_start, tracked)
             THEN [best |-> tracked, ranked |-> i, early |-> TRUE]
             ELSE SingleLoop(group, order, i + 1, tracked, nonsolution_start)

\* SolutionGroup._guess_rank_mp: the best of a chunk of guesses.
RECURSIVE guess_rank_mp(_, _, _, _)
guess_rank_mp(group, guess_chunk, i, best) ==
    IF i > Len(guess_chunk) THEN best
    ELSE guess_rank_mp(group, guess_chunk, i + 1,
            Track(best, guess_chunk[i], guess_rank(group, guess_chunk[i])))

\* iterable[index::n], the index counted from 1.
RECURSIVE Slice(_, _, _)
Slice(list, index, n) ==
    IF index > Len(list) THEN <<>>
    ELSE <<list[index]>> \o Slice(list, index + n, n)

\* A chunking that leaves the last chunk out.
chunkedShort(list, length, n) ==
    LET chunks == IF length < n THEN length ELSE n
    IN  [index \in 1..(chunks - 1) |-> Slice(list, index, chunks)]

\* chunked: the list in n chunks, in fewer when it is shorter than n;
\* length is len() of the iterable.
chunked(list, length, n) ==
    LET chunks == IF length < n THEN length ELSE n
    IN  [index \in 1..chunks |-> Slice(list, index, chunks)]

\* The merge of the result of a chunk into the best of the driver.
Merge(best, partial) ==
    IF best = NoBest \/ rank_less(partial.rank, best.rank) THEN partial
    ELSE IF partial.rank = best.rank
    THEN [best EXCEPT !.guesses = @ \o partial.guesses,
                      !.foils = @ \o partial.foils]
    ELSE best

\* The merge of the results of the futures, in the order of submission.
RECURSIVE MergeAll(_, _, _)
MergeAll(best, results, k) ==
    IF k > Len(results) THEN best
    ELSE MergeAll(Merge(best, results[k]), results, k + 1)

\* The indexes of the best guesses that are solutions.
RECURSIVE RestrictedIndexes(_, _, _)
RestrictedIndexes(guesses, group, i) ==
    IF i > Len(guesses) THEN <<>>
    ELSE IF guesses[i] \in group.word_list
    THEN <<i>> \o RestrictedIndexes(guesses, group, i + 1)
    ELSE RestrictedIndexes(guesses, group, i + 1)

\* No filter down to the guesses in the solutions.
Unrestricted(best, group) == best

\* The best guesses filtered down to the guesses in the solutions, when
\* there are any.
Restricted(best, group) ==
    LET keep == RestrictedIndexes(best.guesses, group, 1)
    IN  IF keep = <<>> THEN best
        ELSE [rank |-> best.rank,
              guesses |-> [i \in 1..Len(keep) |-> best.guesses[keep[i]]],
              foils |-> [i \in 1..Len(keep) |-> best.foils[keep[i]]]]

\* The orders in which the iteration of a set of words can yield them.
Orders(words) ==
    {order \in [1..Cardinality(words) -> words] : Range(order) = words}

----------------------------------------------------------------------------
(* Context: the cache of the best guesses *)

\* A dictionary: its keys in the order of insertion, and its items.
EmptyDict == [order |-> <<>>, item |-> <<>>]

\* key in d
HasKey(d, key) == key \in Range(d.order)

\* d[key] = value
SetItem(d, key, value) ==
    [order |-> IF HasKey(d, key) THEN d.order ELSE Append(d.order, key),
     item |-> [k \in Range(d.order) \cup {key} |->
                IF k = key THEN value ELSE d.item[k]]]

\* entry.setdefault("next_turn", {}): the entry after the call.
setdefault(entry) ==
    IF "next_turn" \in DOMAIN entry THEN entry
    ELSE [field \in DOMAIN entry \cup {"next_turn"} |->
            IF field = "next_turn" THEN EmptyDict ELSE entry[field]]

\* hjson.dumpJSON: the members of a dictionary in its order, as the text of
\* the file holds them. The dictionaries of level 0 and 2 have guesses for
\* keys and entries for values, these of level 1 (next_turn) have results
\* for keys and dictionaries of guesses for values. A rank is written with
\* repr, which reads back as the same float.
RECURSIVE dumpJSON(_, _)
dumpJSON(d, level) ==
    [i \in 1..Len(d.order) |->
        LET value == d.item[d.order[i]]
        IN  <<d.order[i],
              IF level = 1 THEN dumpJSON(value, 2)
              ELSE <<<<"rank", value.rank>>, <<"foil", value.foil>>>>
                    \o IF "next_turn" \in DOMAIN value
                       THEN <<<<"next_turn", dumpJSON(value.next_turn, 1)>>>>
                       ELSE <<>>
            >>]

\* hjson.load: the dictionary of a text.
RECURSIVE load(_, _)
load(text, level) ==
    [order |-> [i \in 1..Len(text) |-> text[i][1]],
     item |-> [key \in {text[i][1] : i \in 1..Len(text)} |->
        LET members == text[CHOOSE i \in 1..Len(text) : text[i][1] = key][2]
        IN  IF level = 1 THEN load(members, 2)
            ELSE IF Len(members) = 2
            THEN [rank |-> members[1][2], foil |-> members[2][2]]
            ELSE [rank |-> members[1][2], foil |-> members[2][2],
                  next_turn |-> load(members[3][2], 1)]]]

\* _load_guess_data: the cache in memory after the call.
load_guess_data(data, file) ==
    IF data # None THEN data
    ELSE IF file.exists THEN load(file.text, 0)
    ELSE EmptyDict

\* _save_guess_data: the file after the temporary file replaced it.
save_guess_data(data) == [exists |-> TRUE, text |-> dumpJSON(data, 0)]

\* The rank None.
NoRank == [num |-> 0, den |-> 1]

\* The traversal of load_guesses: the dictionary of the guesses of the
\* turn, or a KeyError.
RECURSIVE Traverse(_, _, _)
Traverse(d, guessed, turn) ==
    IF turn > Len(guessed) THEN [found |-> TRUE, data |-> d]
    ELSE LET word == guessed[turn][1]
             coloring == guessed[turn][2]
         IN  IF /\ HasKey(d, word)
                /\ "next_turn" \in DOMAIN d.item[word]
                /\ HasKey(d.item[word].next_turn, coloring)
             THEN Traverse(d.item[word].next_turn.item[coloring], guessed, turn + 1)
             ELSE [found |-> FALSE, data |-> EmptyDict]

\* load_guesses after the cache is loaded: what it returns, or the
\* ValueError of guesses of different ranks.
load_guesses(data, guessed) ==
    LET at == Traverse(data, guessed, 1)
        keys == at.data.order
    IN  IF ~at.found \/ keys = <<>>
        THEN [error |-> FALSE, rank |-> NoRank, guesses |-> <<>>, foils |-> <<>>]
        ELSE [error |-> \E i \in 1..Len(keys) :
                        at.data.item[keys[i]].rank # at.data.item[keys[1]].rank,
              rank |-> at.data.item[keys[1]].rank,
              guesses |-> keys,
              foils |-> [i \in 1..Len(keys) |-> at.data.item[keys[i]].foil]]

\* The symbols of a result as Python compares the strings: "b" < "g" < "y".
symbol_order(coloring) ==
    [index \in positions |->
        IF coloring[index] = "b" THEN 0 ELSE IF coloring[index] = "g" THEN 1 ELSE 2]

\* (guess, foil) < (other guess, other foil), as Python compares the pairs.
pair_less(left, right) ==
    \/ TupleLess(left[1], right[1], 1)
    \/ /\ left[1] = right[1]
       /\ TupleLess(symbol_order(left[2]), symbol_order(right[2]), 1)

\* zip(guesses, foils)
zip(guesses, foils) ==
    [i \in 1..Min(Len(guesses), Len(foils)) |-> <<guesses[i], foils[i]>>]

\* sorted on a list of pairs: the smallest first, the first of equal pairs
\* first.
RECURSIVE sorted(_)
sorted(pairs) ==
    IF pairs = <<>> THEN <<>>
    ELSE LET first == CHOOSE i \in 1..Len(pairs) :
                /\ \A j \in 1..Len(pairs) : ~pair_less(pairs[j], pairs[i])
                /\ \A j \in 1..(i - 1) : pair_less(pairs[i], pairs[j])
             rest == [j \in 1..(Len(pairs) - 1) |->
                        IF j < first THEN pairs[j] ELSE pairs[j + 1]]
         IN  <<pairs[first]>> \o sorted(rest)

\* The guesses sorted, the foils left in the order given.
SortedGuessesOnly(guesses, foils) ==
    LET order == sorted(zip(guesses, foils))
    IN  zip([i \in 1..Len(order) |-> order[i][1]], foils)

\* sorted(zip(guesses, foils)): each guess with its foil, in alphabetical
\* order.
SortedPairs(guesses, foils) == sorted(zip(guesses, foils))

\* The loop that adds the guesses to the cleared dictionary.
RECURSIVE AddGuesses(_, _, _, _)
AddGuesses(d, rank, pairs, i) ==
    IF i > Len(pairs) THEN d
    ELSE AddGuesses(
            SetItem(d, pairs[i][1], [rank |-> rank, foil |-> pairs[i][2]]),
            rank, pairs, i + 1)

\* next_turn after sortdict by _result_key.
SortedNextTurn(next_turn) ==
    [order |-> sortdict(Range(next_turn.order)), item |-> next_turn.item]

\* _save_guesses_internal: the dictionary after the call. It returns with
\* nothing stored when the cache does not have the word guessed.
RECURSIVE SaveInto(_, _, _, _, _, _)
SaveInto(d, guessed, turn, rank, guesses, foils) ==
    IF turn > Len(guessed)
    THEN AddGuesses(EmptyDict, rank, SortedPairs(guesses, foils), 1)
    ELSE LET word == guessed[turn][1]
             coloring == guessed[turn][2]
         IN  IF ~HasKey(d, word) THEN d
             ELSE LET entry == setdefault(d.item[word])
                      next_turn == IF HasKey(entry.next_turn, coloring)
                                   THEN entry.next_turn
                                   ELSE SortedNextTurn(
                                        SetItem(entry.next_turn, coloring, EmptyDict))
                  IN  SetItem(d, word, [entry EXCEPT !.next_turn =
                        SetItem(next_turn, coloring,
                            SaveInto(next_turn.item[coloring], guessed,
                                turn + 1, rank, guesses, foils))])

----------------------------------------------------------------------------
(* State *)

VARIABLES
    solution_group,     \* the SolutionGroup of the game
    guess_group,        \* the GuessGroup of the game
    call,               \* the call of best_guesses that runs or ran last
    solution,           \* the solution of the game, unknown to the solver
    turns,              \* the number of turns played
    op,                 \* the operation that ran last
    guess,              \* the guess of the last operation
    result,             \* the result (coloring) of the last operation
    ret,                \* what the last operation returned
    words_guessed,      \* Context._words_guessed: the turns of the game
    cache_data,         \* Context._cache_data: the cache in memory, or None
    guesses_file,       \* the cache file of the context
    tmp_file,           \* the .tmp sibling of the cache file
    lock,               \* the run that holds the file lock of the cache
    other               \* another run of the program on the same cache file

vars == <<solution_group, guess_group, call, solution, turns, op, guess, result, ret,
          words_guessed, cache_data, guesses_file, tmp_file, lock, other>>

\* What the runs of the program share through the directory of the cache,
\* besides the cache file, and the other run.
store_vars == <<tmp_file, lock, other>>

\* The state of the Context that the cache operations use.
context_vars == <<words_guessed, cache_data, guesses_file, store_vars>>

\* A file that does not exist.
NoFile == [exists |-> FALSE, text |-> <<>>]

\* No other run of the program.
NoRun == [pc |-> "none"]

\* A Context as __init__ leaves it, with no cache file yet, and nothing else
\* running.
ContextInit ==
    /\ words_guessed = <<>>
    /\ cache_data = None
    /\ guesses_file = NoFile
    /\ tmp_file = NoFile
    /\ lock = "free"
    /\ other = NoRun

\* Bound on the turns of a game.
MaxTurns == 2

AllCorrect == [index \in positions |-> "g"]

\* The word lists a game can start with: the solutions of the dictionary.
SolutionLists ==
    {S \in SUBSET Dictionary : S # {} /\ Cardinality(S) <= MaxSolutions}

----------------------------------------------------------------------------
(* is_result_possible, possible_results *)

\* The loop of is_result_possible from an index on, with the letters seen
\* absent before it: a letter seen absent cannot be present later.
RECURSIVE ResultPossibleLoop(_, _, _, _)
ResultPossibleLoop(word, coloring, index, absent) ==
    IF index > word_length THEN TRUE
    ELSE IF coloring[index] = "b"
    THEN ResultPossibleLoop(word, coloring, index + 1, absent \cup {word[index]})
    ELSE IF coloring[index] = "y" /\ word[index] \in absent THEN FALSE
    ELSE ResultPossibleLoop(word, coloring, index + 1, absent)

is_result_possible(word, coloring) == ResultPossibleLoop(word, coloring, 1, {})

\* A list of results that drops every result with one "y".
SinglePresentDropped == {coloring \in Results : count(coloring, "y") # 1}

\* _RESULTS[word_length]: the results of the length, without those of one
\* "y" and no "b".
RESULTS ==
    {coloring \in Results :
        count(coloring, "y") # 1 \/ \E index \in positions : coloring[index] = "b"}

\* The results possible_results(word) yields.
possible_results(word) ==
    {coloring \in RESULTS : is_result_possible(word, coloring)}

----------------------------------------------------------------------------
(* FeedbackSpec: wordle_result on every guess and solution *)

FeedbackInit ==
    /\ guess \in Words
    /\ solution \in Words
    /\ solution_group = WordGroup({})
    /\ guess_group = WordGroup({})
    /\ call = None
    /\ turns = 0
    /\ op = "init"
    /\ result = None
    /\ ret = None
    /\ ContextInit

Feedback ==
    /\ op = "init"
    /\ op' = "wordle_result"
    /\ result' = wordle_result(guess, solution)
    /\ UNCHANGED <<solution_group, guess_group, call, solution, turns, guess, ret, context_vars>>

FeedbackNext == Feedback

FeedbackSpec == FeedbackInit /\ [][FeedbackNext]_vars

----------------------------------------------------------------------------
(* Spec: a game on a solution group *)

Init ==
    /\ \E S \in SolutionLists :
        /\ solution_group = WordGroup(S)
        /\ solution \in S
    /\ guess_group = WordGroup({})
    /\ call = None
    /\ turns = 0
    /\ op = "init"
    /\ guess = None
    /\ result = None
    /\ ret = None
    /\ ContextInit

\* The caller is between two calls; in every other state the last operation
\* holds values the caller has yet to take (Return).
Quiet == {"init", "idle"}

\* A turn of the game: the word played gets the coloring of the solution,
\* and unless it is the solution, the solutions are filtered by it.
Turn(word) ==
    /\ op \in Quiet \cup {"filter_solutions"}
    /\ turns < MaxTurns
    /\ turns' = turns + 1
    /\ guess' = word
    /\ result' = wordle_result(word, solution)
    /\ IF result' = AllCorrect
       THEN /\ op' = "success"
            /\ UNCHANGED solution_group
       ELSE /\ op' = "filter_solutions"
            /\ solution_group' = filter_solutions(solution_group, word, result')
    /\ ret' = None
    /\ UNCHANGED <<guess_group, call, solution, context_vars>>

\* partition(guess, sort) on the solution group.
Partition(word, sort) ==
    /\ op \in Quiet
    /\ op' = "partition"
    /\ guess' = word
    /\ result' = None
    /\ ret' = partition(solution_group, word, sort)
    /\ UNCHANGED <<solution_group, guess_group, call, solution, turns, context_vars>>

\* The results some solution gives the word.
FeedbacksOf(word) == {wordle_result(word, w) : w \in Words}

\* filter_solutions(word, coloring) on a copy of the solution group.
Restrict(word, coloring) ==
    /\ op \in Quiet
    /\ op' = "restrict"
    /\ guess' = word
    /\ result' = coloring
    /\ solution_group' = copy(solution_group)[1]
    /\ ret' = filter_solutions(copy(solution_group)[2], word, coloring)
    /\ UNCHANGED <<guess_group, call, solution, turns, context_vars>>

\* The caller takes the value returned and goes on.
Return ==
    /\ op \in {"filter_solutions", "partition", "restrict"}
    /\ op' = "idle"
    /\ guess' = None
    /\ result' = None
    /\ ret' = None
    /\ UNCHANGED <<solution_group, guess_group, call, solution, turns, context_vars>>

Next ==
    \/ \E word \in Words : Turn(word)
    \/ \E word \in Words, sort \in BOOLEAN : Partition(word, sort)
    \/ \E word \in Words : \E coloring \in FeedbacksOf(word) : Restrict(word, coloring)
    \/ Return

Spec == Init /\ [][Next]_vars

----------------------------------------------------------------------------
(* SearchSpec: best_guesses on a guess group and a solution group *)

\* Bounds on the guesses that are not solutions and on the processes.
MaxExtra == 2
MaxWorkers == 2

\* No call of best_guesses yet.
NoCall == [path |-> "none"]

\* The guess group holds the word list, the solution group the solutions,
\* which are words of the word list.
SearchInit ==
    /\ \E S \in SolutionLists :
        \E E \in SUBSET (Dictionary \ S) :
            /\ Cardinality(E) <= MaxExtra
            /\ solution_group = WordGroup(S)
            /\ guess_group = WordGroup(S \cup E)
    /\ call = NoCall
    /\ solution = None
    /\ turns = 0
    /\ op = "init"
    /\ guess = None
    /\ result = None
    /\ ret = None
    /\ ContextInit

\* The call the caller gets the best guesses from: what it was called with
\* and how the search went.
Finished(path, words, mp, ranked, early, best, reordered) ==
    [path |-> path, words |-> words, mp |-> mp, ranked |-> ranked,
     early |-> early, best |-> best, reordered |-> reordered]

\* best_guesses in a single process (mp off, or a problem too small for
\* multiprocessing), without the cache: the excluded letters of the
\* solutions filter the guesses, the solutions are ranked first, then the
\* other guesses, each list in the order its set iterates.
BestGuesses(solution_order) ==
    /\ op = "init"
    /\ LET solutions == prepare_stats(solution_group)
           guesses == filter_guesses(guess_group, excluded_letters(solutions))
       IN  /\ solution_order \in Orders(solutions.word_list)
           /\ \E other_order \in Orders(guesses.word_list \ solutions.word_list) :
                LET search == SingleLoop(solutions, solution_order \o other_order,
                                1, NoBest, Cardinality(solutions.word_list))
                IN  /\ ret' = Restricted(search.best, solutions)
                    /\ call' = Finished("single", guess_group.word_list, 0,
                                search.ranked, search.early, search.best, FALSE)
           /\ solution_group' = solutions
           /\ guess_group' = guesses
    /\ op' = "best_guesses"
    /\ UNCHANGED <<solution, turns, guess, result, context_vars>>

\* The futures of one guess list: its chunks submitted, no result yet.
Submitted(running, phase, order, length) ==
    LET chunks == chunked(order, length, running.mp)
    IN  [running EXCEPT
            !.phase = phase,
            !.order = order,
            !.chunks = chunks,
            !.results = [k \in DOMAIN chunks |-> NoBest],
            !.done = {}]

\* best_guesses with mp processes, without the cache, up to the submission
\* of the chunks of the solutions. The test of line 530 leaves mp on for
\* words longer than 5 letters, whatever the size of the lists.
BestGuessesMP(mp, solution_order) ==
    /\ op = "init"
    /\ LET solutions == prepare_stats(solution_group)
           guesses == filter_guesses(guess_group, excluded_letters(solutions))
       IN  /\ solution_order \in Orders(solutions.word_list)
           /\ call' = Submitted(
                [path |-> "mp", words |-> guess_group.word_list, mp |-> mp,
                 phase |-> 1, order |-> <<>>, chunks |-> <<>>, results |-> <<>>,
                 done |-> {}, best |-> NoBest, ranked |-> 0, reordered |-> FALSE,
                 count |-> 0, length |-> Cardinality(guesses.word_list)],
                1, solution_order, Cardinality(solutions.word_list))
           /\ solution_group' = solutions
           /\ guess_group' = guesses
    /\ op' = "mp"
    /\ UNCHANGED <<solution, turns, guess, result, ret, context_vars>>

\* A worker process completes the chunk of a future: _guess_rank_mp on its
\* copy of the solution group; its progress adds the guesses to the count.
WorkerDone(k) ==
    /\ op = "mp"
    /\ k \in DOMAIN call.chunks
    /\ k \notin call.done
    /\ call' = [call EXCEPT
            !.results[k] = guess_rank_mp(solution_group, call.chunks[k], 1, NoBest),
            !.done = @ \cup {k},
            !.reordered = @ \/ \E later \in call.done : later > k,
            !.count = @ + Len(call.chunks[k])]
    /\ UNCHANGED <<solution_group, guess_group, solution, turns, op, guess, result, ret, context_vars>>

\* The driver, once every future of the guess list is done: it merges the
\* results in the order of submission, and either submits the chunks of the
\* guesses that are not solutions, or filters the best guesses down to the
\* solutions and returns. The progress bar raises at its close when the
\* count is not the number of guesses.
Collect ==
    /\ op = "mp"
    /\ call.done = DOMAIN call.chunks
    /\ LET best == MergeAll(call.best, call.results, 1)
           ranked == call.ranked + Len(call.order)
           others == guess_group.word_list \ solution_group.word_list
           early == rank_below_two(best.rank)
           progress == IF early THEN call.length ELSE call.count
       IN  IF call.phase = 1 /\ ~early /\ Cardinality(guess_group.word_list)
                    - Cardinality(solution_group.word_list) # 0
           THEN /\ \E other_order \in Orders(others) :
                    call' = Submitted(
                        [call EXCEPT !.best = best, !.ranked = ranked],
                        2, other_order,
                        Cardinality(guess_group.word_list)
                            - Cardinality(solution_group.word_list))
                /\ UNCHANGED <<op, ret>>
           ELSE /\ call' = Finished("mp", call.words, call.mp, ranked,
                                early /\ call.phase = 1, best, call.reordered)
                /\ IF progress = call.length
                   THEN /\ op' = "best_guesses"
                        /\ ret' = Restricted(best, solution_group)
                   ELSE /\ op' = "error"
                        /\ ret' = None
    /\ UNCHANGED <<solution_group, guess_group, solution, turns, guess, result, context_vars>>

SearchNext ==
    \/ \E solution_order \in Orders(solution_group.word_list) :
        BestGuesses(solution_order)
    \/ \E mp \in 1..MaxWorkers :
        \E solution_order \in Orders(solution_group.word_list) :
            BestGuessesMP(mp, solution_order)
    \/ \E k \in 1..MaxWorkers : WorkerDone(k)
    \/ Collect

SearchSpec == SearchInit /\ [][SearchNext]_vars

----------------------------------------------------------------------------
(* CacheSpec: one game's Context saves and loads the best guesses *)

\* Bounds on the words and the length of the lists of guesses that are
\* saved, and on the number of calls of save_guesses.
MaxCached == 2
MaxGuesses == 2
MaxSaves == 2

\* The words that are guessed and saved, the results they get from each
\* other and the ranks they have against each other.
CacheWords == {WordOfRank(k) : k \in 0..(MaxCached - 1)}

CacheFoils == {wordle_result(word, target) : word, target \in CacheWords}

CacheRanks ==
    {guess_rank(prepare_stats(WordGroup(S)), word).rank :
        S \in (SUBSET CacheWords) \ {{}}, word \in CacheWords}

\* The lists of best guesses that best_guesses saves: at least one guess,
\* no guess twice, in any order.
GuessLists ==
    UNION {Orders(W) : W \in {V \in SUBSET CacheWords :
                                V # {} /\ Cardinality(V) <= MaxGuesses}}

\* The last call of save_guesses: none yet.
NoSave ==
    [saves |-> 0, key |-> <<>>, rank |-> NoRank, guesses |-> <<>>, foils |-> <<>>,
     unsaved_results |-> 0]

CacheInit ==
    /\ ContextInit
    /\ call = NoSave
    /\ op = "init"
    /\ ret = None
    /\ solution_group = WordGroup({})
    /\ guess_group = WordGroup({})
    /\ solution = None
    /\ turns = 0
    /\ guess = None
    /\ result = None

\* Context.next_turn
NextTurn(word, coloring) ==
    /\ Len(words_guessed) < MaxTurns
    /\ words_guessed' = Append(words_guessed, <<word, coloring>>)
    /\ op' = "next_turn"
    /\ ret' = None
    /\ UNCHANGED <<solution_group, guess_group, call, solution, turns, guess,
                   result, cache_data, guesses_file>>
    /\ UNCHANGED store_vars

\* Context.reset
Reset ==
    /\ words_guessed # <<>>
    /\ words_guessed' = <<>>
    /\ op' = "reset"
    /\ ret' = None
    /\ UNCHANGED <<solution_group, guess_group, call, solution, turns, guess,
                   result, cache_data, guesses_file>>
    /\ UNCHANGED store_vars

\* Context.__init__: a new Context of the same game, as a later run of the
\* program makes it.
NewContext ==
    /\ cache_data # None
    /\ words_guessed' = <<>>
    /\ cache_data' = None
    /\ op' = "Context"
    /\ ret' = None
    /\ call' = [call EXCEPT !.unsaved_results = 0]
    /\ UNCHANGED <<solution_group, guess_group, solution, turns, guess,
                   result, guesses_file>>
    /\ UNCHANGED store_vars

\* The guard of save_guesses on the turns played, and what it would be if
\* guesses were saved at any depth.
NeverTooDeep(guessed) == FALSE

too_deep(guessed) == Len(guessed) > 1

\* Context.save_guesses: nothing further than one turn is saved; otherwise
\* the cache is loaded again from the file, the guesses are saved into it
\* and the file is written.
SaveGuesses(rank, guesses, foils) ==
    /\ call.saves < MaxSaves
    /\ IF too_deep(words_guessed)
       THEN UNCHANGED <<cache_data, guesses_file>>
       ELSE LET data == SaveInto(load_guess_data(None, guesses_file),
                            words_guessed, 1, rank, guesses, foils)
            IN  /\ cache_data' = data
                /\ guesses_file' = save_guess_data(data)
    /\ call' = [saves |-> call.saves + 1, key |-> words_guessed, rank |-> rank,
                guesses |-> guesses, foils |-> foils,
                unsaved_results |-> call.unsaved_results]
    /\ op' = "save_guesses"
    /\ ret' = None
    /\ UNCHANGED <<solution_group, guess_group, solution, turns, guess, result,
                   words_guessed>>
    /\ UNCHANGED store_vars

\* Context.load_guesses: the cache is loaded if it is not in memory, and
\* the guesses of the turn are returned.
LoadGuesses ==
    /\ op # "load_guesses"
    /\ LET data == load_guess_data(cache_data, guesses_file)
           loaded == load_guesses(data, words_guessed)
       IN  /\ cache_data' = data
           /\ ret' = loaded
           /\ op' = IF loaded.error THEN "ValueError" ELSE "load_guesses"
    /\ UNCHANGED <<solution_group, guess_group, call, solution, turns, guess,
                   result, words_guessed, guesses_file>>
    /\ UNCHANGED store_vars

\* Context._save_guesses_internal as cache_fill calls it: one turn was
\* played, load_guesses found nothing for it in the cache in memory, and
\* the guesses computed go into the cache in memory, not to the file.
SaveGuessesInternal(rank, guesses, foils) ==
    /\ call.saves < MaxSaves
    /\ Len(words_guessed) = 1
    /\ cache_data # None
    /\ ~load_guesses(cache_data, words_guessed).error
    /\ load_guesses(cache_data, words_guessed).rank = NoRank
    /\ cache_data' = SaveInto(cache_data, words_guessed, 1, rank, guesses, foils)
    /\ call' = [call EXCEPT !.saves = call.saves + 1,
                            !.unsaved_results = call.unsaved_results + 1]
    /\ op' = "_save_guesses_internal"
    /\ ret' = None
    /\ UNCHANGED <<solution_group, guess_group, solution, turns, guess, result,
                   words_guessed, guesses_file>>
    /\ UNCHANGED store_vars

\* Context._save_guess_data as cache_fill calls it, when it has results that
\* are not saved: the cache in memory is written to the file.
SaveGuessData ==
    /\ call.unsaved_results > 0
    /\ cache_data # None
    /\ guesses_file' = save_guess_data(cache_data)
    /\ call' = [call EXCEPT !.unsaved_results = 0]
    /\ op' = "_save_guess_data"
    /\ ret' = None
    /\ UNCHANGED <<solution_group, guess_group, solution, turns, guess, result,
                   words_guessed, cache_data>>
    /\ UNCHANGED store_vars

CacheNext ==
    \/ \E word \in CacheWords : \E coloring \in CacheFoils :
        NextTurn(word, coloring)
    \/ Reset
    \/ NewContext
    \/ \E rank \in CacheRanks : \E guesses \in GuessLists :
        \E foils \in [1..Len(guesses) -> CacheFoils] :
            SaveGuesses(rank, guesses, foils)
    \/ LoadGuesses
    \/ \E rank \in CacheRanks : \E guesses \in GuessLists :
        \E foils \in [1..Len(guesses) -> CacheFoils] :
            SaveGuessesInternal(rank, guesses, foils)
    \/ SaveGuessData

CacheSpec == CacheInit /\ [][CacheNext]_vars

----------------------------------------------------------------------------
(* SolveSpec: best_guesses with the cache of the Context, turn after turn *)

\* Bound on the Context objects that the groups can be bound to.
MaxContexts == 2

\* Bound on the guesses of a game that are not solutions.
MaxOther == 1

\* A group bound to a Context: WordGroup(word_list, context). Contexts have
\* no __eq__, so they are compared by identity.
Bound(group, context) ==
    [field \in DOMAIN group \cup {"context"} |->
        IF field = "context" THEN context ELSE group[field]]

\* The guard of best_guesses on the contexts of its two groups, and what it
\* would be without the comparison.
AnyContext(guesses, solutions) == TRUE

same_context(guesses, solutions) == guesses.context = solutions.context

\* The test of best_guesses on what load_guesses returned, and what it would
\* be if a stored rank were never taken.
NeverHit(loaded) == FALSE

cache_hit(loaded) == loaded.rank # NoRank

\* The last call of best_guesses: none yet.
NoSolve ==
    [path |-> "none", cache |-> FALSE, ranked |-> 0, stored |-> FALSE,
     solutions |-> {}, before |-> [exists |-> FALSE, text |-> <<>>]]

\* The groups of a game: the guess group is bound to the Context of the
\* cache, the solution group to that or to another Context.
SolveInit ==
    /\ \E S \in SolutionLists :
        \E E \in SUBSET (Dictionary \ S) :
            \E context \in 1..MaxContexts :
                /\ Cardinality(E) <= MaxOther
                /\ solution_group = Bound(WordGroup(S), context)
                /\ guess_group = Bound(WordGroup(S \cup E), 1)
    /\ call = NoSolve
    /\ solution = None
    /\ turns = 0
    /\ op = "init"
    /\ guess = None
    /\ result = None
    /\ ret = None
    /\ ContextInit

\* best_guesses(guess_group, solution_group, mp = False, cache): the check
\* of the contexts, the lookup in the cache, the search in a single process
\* over the words in some order of iteration, and the save into the cache.
Solve(cache) ==
    \E solution_order \in Orders(solution_group.word_list) :
    \E other_order \in Orders(filter_guesses(guess_group,
            excluded_letters(prepare_stats(solution_group))).word_list
                \ solution_group.word_list) :
    /\ op \in Quiet
    /\ IF ~same_context(guess_group, solution_group)
       THEN /\ op' = "ValueError"
            /\ ret' = None
            /\ call' = [NoSolve EXCEPT !.path = "error", !.cache = cache,
                            !.solutions = solution_group.word_list,
                            !.before = guesses_file]
            /\ UNCHANGED <<solution_group, guess_group, cache_data, guesses_file>>
       ELSE LET data == IF cache THEN load_guess_data(cache_data, guesses_file)
                        ELSE cache_data
                loaded == load_guesses(data, words_guessed)
                solutions == prepare_stats(solution_group)
                guesses == filter_guesses(guess_group, excluded_letters(solutions))
                search == SingleLoop(solutions, solution_order \o other_order,
                            1, NoBest, Cardinality(solutions.word_list))
                best == Restricted(search.best, solutions)
                saved == SaveInto(load_guess_data(None, guesses_file),
                            words_guessed, 1, best.rank, best.guesses, best.foils)
            IN  IF cache /\ loaded.error
                THEN /\ op' = "ValueError"
                     /\ ret' = None
                     /\ cache_data' = data
                     /\ call' = [NoSolve EXCEPT !.path = "error", !.cache = cache,
                                    !.solutions = solution_group.word_list,
                                    !.before = guesses_file]
                     /\ UNCHANGED <<solution_group, guess_group, guesses_file>>
                ELSE IF cache /\ cache_hit(loaded)
                THEN /\ op' = "best_guesses"
                     /\ ret' = [rank |-> loaded.rank, guesses |-> loaded.guesses,
                                foils |-> loaded.foils]
                     /\ cache_data' = data
                     /\ call' = [NoSolve EXCEPT !.path = "cache", !.cache = cache,
                                    !.solutions = solution_group.word_list,
                                    !.before = guesses_file]
                     /\ UNCHANGED <<solution_group, guess_group, guesses_file>>
                ELSE /\ op' = "best_guesses"
                     /\ ret' = best
                     /\ solution_group' = Bound(solutions, solution_group.context)
                     /\ guess_group' = Bound(guesses, guess_group.context)
                     /\ IF cache /\ Len(words_guessed) <= 1
                        THEN /\ cache_data' = saved
                             /\ guesses_file' = save_guess_data(saved)
                        ELSE /\ cache_data' = data
                             /\ UNCHANGED guesses_file
                     /\ call' = [path |-> "single", cache |-> cache,
                                 ranked |-> search.ranked,
                                 stored |-> cache /\ Len(words_guessed) <= 1,
                                 solutions |-> solution_group.word_list,
                                 before |-> guesses_file]
    /\ UNCHANGED <<solution, turns, guess, result, words_guessed>>
    /\ UNCHANGED store_vars

\* A turn: the word played and the result of some remaining solution go to
\* the Context (next_turn), and the solutions are filtered by them.
Play(word, coloring) ==
    /\ op \in Quiet
    /\ turns < MaxTurns
    /\ word \in guess_group.word_list
    /\ \E s \in solution_group.word_list : coloring = wordle_result(word, s)
    /\ turns' = turns + 1
    /\ words_guessed' = Append(words_guessed, <<word, coloring>>)
    /\ solution_group' = Bound(filter_solutions(solution_group, word, coloring),
                                solution_group.context)
    /\ op' = "idle"
    /\ guess' = None
    /\ result' = None
    /\ ret' = None
    /\ UNCHANGED <<guess_group, call, solution, cache_data, guesses_file>>
    /\ UNCHANGED store_vars

\* The caller takes the best guesses and goes on.
SolveReturn ==
    /\ op = "best_guesses"
    /\ op' = "idle"
    /\ ret' = None
    /\ call' = NoSolve
    /\ UNCHANGED <<solution_group, guess_group, solution, turns, guess, result,
                   context_vars>>

SolveNext ==
    \/ \E cache \in BOOLEAN : Solve(cache)
    \/ \E word \in Dictionary : \E coloring \in Results : Play(word, coloring)
    \/ SolveReturn

SolveSpec == SolveInit /\ [][SolveNext]_vars

----------------------------------------------------------------------------
(* FillSpec: cache_fill on the cache that earlier games left *)

\* Bound on the number of solutions of a partition.
MaxPartition == 3

\* The number of results cache_fill adds before it writes the file.
max_unsaved_results == 2

\* What best_guesses computes: the rank, the guesses and the foils it
\* returns for the lists of solutions made of the words of the cache, the
\* solutions being the guesses, in any order of iteration.
Answers ==
    UNION {{LET solutions == prepare_stats(WordGroup(S))
            IN  Restricted(
                    SingleLoop(solutions, order, 1, NoBest, Cardinality(S)).best,
                    solutions) :
                order \in Orders(S)} :
            S \in (SUBSET CacheWords) \ {{}}}

\* The turns an earlier game saved its guesses at: none, or one.
ShallowTurns ==
    {<<>>} \cup {<<turn>> : turn \in CacheWords \X CacheFoils}

\* The locals of cache_fill before it runs.
NoFill ==
    [pc |-> "none", earlier |-> 0, guesses |-> <<>>, index |-> 0, seen |-> {},
     size |-> 0, cache_results |-> {}, unsaved_results |-> 0]

FillInit ==
    /\ ContextInit
    /\ call = NoFill
    /\ op = "init"
    /\ ret = None
    /\ solution_group = WordGroup({})
    /\ guess_group = WordGroup({})
    /\ solution = None
    /\ turns = 0
    /\ guess = None
    /\ result = None

\* An earlier run of the program: a game with the cache enabled whose
\* best_guesses missed the cache after the turns played and saved what it
\* computed, whatever the number of solutions left.
EarlierSave(guessed, answer) ==
    /\ call.pc = "none"
    /\ call.earlier < MaxSaves
    /\ load_guesses(load_guess_data(None, guesses_file), guessed).rank = NoRank
    /\ guesses_file' = save_guess_data(
            SaveInto(load_guess_data(None, guesses_file), guessed, 1,
                answer.rank, answer.guesses, answer.foils))
    /\ call' = [call EXCEPT !.earlier = call.earlier + 1]
    /\ op' = "save_guesses"
    /\ UNCHANGED <<solution_group, guess_group, solution, turns, guess, result,
                   ret, words_guessed, cache_data, store_vars>>

\* cache_fill, lines 15-19: the groups of a new Context and the initial
\* best_guesses with the cache, which returns the guesses of the cache or
\* computes and saves them.
FillStart(answer) ==
    /\ call.pc = "none"
    /\ LET data == load_guess_data(None, guesses_file)
           loaded == load_guesses(data, <<>>)
           saved == SaveInto(data, <<>>, 1, answer.rank, answer.guesses,
                        answer.foils)
       IN  IF loaded.error
           THEN /\ op' = "ValueError"
                /\ call' = [call EXCEPT !.pc = "failed"]
                /\ cache_data' = data
                /\ UNCHANGED guesses_file
           ELSE IF cache_hit(loaded)
           THEN /\ op' = "best_guesses"
                /\ call' = [call EXCEPT !.pc = "loop", !.index = 1,
                                        !.guesses = loaded.guesses]
                /\ cache_data' = data
                /\ UNCHANGED guesses_file
           ELSE /\ op' = "best_guesses"
                /\ call' = [call EXCEPT !.pc = "loop", !.index = 1,
                                        !.guesses = answer.guesses]
                /\ cache_data' = saved
                /\ guesses_file' = save_guess_data(saved)
    /\ words_guessed' = <<>>
    /\ UNCHANGED <<solution_group, guess_group, solution, turns, guess, result,
                   ret, store_vars>>

\* cache_fill, lines 25-61: the next result of the partition of the guess,
\* with the number of solutions it has and what best_guesses computes for
\* them.
FillStep(coloring, size, answer) ==
    /\ call.pc = "loop"
    /\ coloring \notin call.seen
    /\ \A earlier \in call.seen : result_key_less(earlier, coloring)
    /\ LET guessed == <<<<call.guesses[call.index], coloring>>>>
           loaded == load_guesses(cache_data, guessed)
           added == SaveInto(cache_data, guessed, 1, answer.rank,
                        answer.guesses, answer.foils)
           unsaved == call.unsaved_results + 1
       IN  IF size <= 2
           THEN /\ op' = "No cache"
                /\ call' = [call EXCEPT !.size = size, !.seen = call.seen \cup {coloring}]
                /\ UNCHANGED <<cache_data, guesses_file>>
           ELSE IF loaded.error
           THEN /\ op' = "ValueError"
                /\ call' = [call EXCEPT !.pc = "failed", !.size = size,
                                        !.unsaved_results = 0]
                /\ guesses_file' = IF call.unsaved_results > 0
                                   THEN save_guess_data(cache_data)
                                   ELSE guesses_file
                /\ UNCHANGED cache_data
           ELSE IF cache_hit(loaded)
           THEN /\ op' = "Cached"
                /\ call' = [call EXCEPT
                                !.size = size,
                                !.seen = call.seen \cup {coloring},
                                !.cache_results = call.cache_results \cup {coloring}]
                /\ UNCHANGED <<cache_data, guesses_file>>
           ELSE /\ op' = "Added"
                /\ cache_data' = added
                /\ IF unsaved >= max_unsaved_results
                   THEN guesses_file' = save_guess_data(added)
                   ELSE UNCHANGED guesses_file
                /\ call' = [call EXCEPT
                                !.size = size,
                                !.seen = call.seen \cup {coloring},
                                !.cache_results = call.cache_results \cup {coloring},
                                !.unsaved_results =
                                    IF unsaved >= max_unsaved_results THEN 0
                                    ELSE unsaved]
    /\ guess' = call.guesses[call.index]
    /\ result' = coloring
    /\ UNCHANGED <<solution_group, guess_group, solution, turns, ret,
                   words_guessed, store_vars>>

\* The results the cache has under the next turn of a guess, or a KeyError.
real_cache_results(data, word) ==
    IF HasKey(data, word) /\ "next_turn" \in DOMAIN data.item[word]
    THEN [found |-> TRUE, results |-> Range(data.item[word].next_turn.order)]
    ELSE [found |-> FALSE, results |-> {}]

\* The comparison of the coherency check, and what it would be if only the
\* results that are missing from the cache counted.
IncoherentMissing(cache_results, real) == ~(cache_results \subseteq real)

incoherent(cache_results, real) == cache_results # real

\* cache_fill, lines 62-97: the partition of the guess is exhausted; the
\* results not saved yet are written, and the results of the cache under
\* the guess are compared with the results computed.
FillCheck ==
    /\ call.pc = "loop"
    /\ call.seen # {}
    /\ LET real == real_cache_results(cache_data, call.guesses[call.index])
       IN  IF real.found /\ incoherent(call.cache_results, real.results)
           THEN /\ op' = "exit"
                /\ call' = [call EXCEPT !.pc = "exit", !.unsaved_results = 0]
           ELSE /\ op' = "check"
                /\ call' = [call EXCEPT
                                !.pc = IF call.index < Len(call.guesses)
                                       THEN "loop" ELSE "done",
                                !.index = call.index + 1,
                                !.seen = {},
                                !.cache_results = {},
                                !.unsaved_results = 0]
    /\ guesses_file' = IF call.unsaved_results > 0
                       THEN save_guess_data(cache_data)
                       ELSE guesses_file
    /\ UNCHANGED <<solution_group, guess_group, solution, turns, guess, result,
                   ret, words_guessed, cache_data, store_vars>>

FillNext ==
    \/ \E guessed \in ShallowTurns : \E answer \in Answers :
        EarlierSave(guessed, answer)
    \/ \E answer \in Answers : FillStart(answer)
    \/ \E coloring \in CacheFoils : \E size \in 1..MaxPartition :
        \E answer \in Answers : FillStep(coloring, size, answer)
    \/ FillCheck

FillSpec == FillInit /\ [][FillNext]_vars

----------------------------------------------------------------------------
(* StoreSpec: two runs of the program on one cache file *)

\* Bound on the loads, saves and additions of one run.
MaxOps == 2

\* The last piece of the text of a document, and the bytes of a file that
\* no write reached.
End == <<"}">>

Hole == <<>>

\* hjson.dumpJSON into a file: the pieces that are written one after the
\* other.
Text(data) == dumpJSON(data, 0) \o <<End>>

\* A write of one piece at an offset of a file: over what is there, or
\* after a hole when the file is shorter than the offset.
WriteAt(text, offset, piece) ==
    IF offset < Len(text) THEN [text EXCEPT ![offset + 1] = piece]
    ELSE text \o [i \in 1..(offset - Len(text)) |-> Hole] \o <<piece>>

\* The file holds a whole document.
Whole(file) ==
    /\ file.exists
    /\ Len(file.text) >= 1
    /\ file.text[Len(file.text)] = End
    /\ \A i \in 1..(Len(file.text) - 1) : Len(file.text[i]) = 2

\* hjson.load on a file that holds a whole document.
Parsed(file) == load(SubSeq(file.text, 1, Len(file.text) - 1), 0)

\* The test of _load_guess_data on the temporary file, and what it would be
\* if the temporary file were not looked at.
TempfileIgnored(file) == FALSE

tempfile_exists(file) == file.exists

\* A run that is between two operations, with nothing done yet.
Idle ==
    [pc |-> "idle", fd |-> "none", written |-> 0, unsaved_results |-> 0,
     ops |-> 0]

Runs == {"main", "other"}

Peer(r) == IF r = "main" THEN "other" ELSE "main"

\* The position of a run and the cache it has in memory: the run "main" is
\* the Context of the model, the other run has its own.
Me(r) == IF r = "main" THEN call ELSE other.run

Memory(r) == IF r = "main" THEN cache_data ELSE other.data

\* The turns that the runs load and save at: none, one, or the same twice,
\* of a guess that did not win.
StoreTurns ==
    LET played == {turn \in CacheWords \X CacheFoils :
                        \E i \in 1..word_length : turn[2][i] # "g"}
    IN  {<<>>} \cup {<<turn>> : turn \in played}
            \cup {<<turn, turn>> : turn \in played}

\* The run r moves to a position with a cache in memory; the other run
\* keeps its position, but for the file its descriptor is open on.
Becomes(r, run, data, peer) ==
    IF r = "main"
    THEN /\ call' = run
         /\ cache_data' = data
         /\ other' = [other EXCEPT !.run = peer]
    ELSE /\ other' = [run |-> run, data |-> data]
         /\ call' = peer
         /\ UNCHANGED cache_data

\* The cache file at the start: none, or the document that an earlier run
\* saved for the first turn.
StoreInit ==
    /\ guesses_file \in {NoFile} \cup
            {[exists |-> TRUE,
              text |-> Text(SaveInto(EmptyDict, <<>>, 1, answer.rank,
                            answer.guesses, answer.foils))] :
                answer \in Answers}
    /\ tmp_file = NoFile
    /\ lock = "free"
    /\ call = Idle
    /\ other = [run |-> Idle, data |-> None]
    /\ cache_data = None
    /\ words_guessed = <<>>
    /\ op = [run |-> "none", name |-> "init", key |-> <<>>]
    /\ ret = None
    /\ solution_group = WordGroup({})
    /\ guess_group = WordGroup({})
    /\ solution = None
    /\ turns = 0
    /\ guess = None
    /\ result = None

\* What the runs of StoreSpec leave alone.
StoreFrame ==
    UNCHANGED <<solution_group, guess_group, solution, turns, guess, result,
                words_guessed>>

\* Context.load_guesses after the turns of key: under the lock, the cache is
\* loaded from the file if it is not in memory, which fails when the
\* temporary file exists or the file does not hold a document; then the
\* guesses of the turns are returned from memory.
StoreLoad(r, key) ==
    /\ Me(r).pc = "idle"
    /\ Me(r).ops < MaxOps
    /\ lock = "free"
    /\ LET me == [Me(r) EXCEPT !.ops = Me(r).ops + 1]
           failed == [me EXCEPT !.pc = "failed"]
           fresh == Memory(r) = None
           data == IF ~fresh THEN Memory(r)
                   ELSE IF guesses_file.exists THEN Parsed(guesses_file)
                   ELSE EmptyDict
       IN  IF fresh /\ tempfile_exists(tmp_file)
           THEN Becomes(r, failed, None, Me(Peer(r))) /\ ret' = None
           ELSE IF fresh /\ guesses_file.exists /\ ~Whole(guesses_file)
           THEN Becomes(r, failed, None, Me(Peer(r))) /\ ret' = None
           ELSE IF load_guesses(data, key).error
           THEN Becomes(r, failed, None, Me(Peer(r))) /\ ret' = None
           ELSE Becomes(r, me, data, Me(Peer(r)))
                    /\ ret' = load_guesses(data, key)
    /\ op' = [run |-> r, name |-> "load_guesses", key |-> key]
    /\ UNCHANGED <<guesses_file, tmp_file, lock>>
    /\ StoreFrame

\* Context.save_guesses after the turns of key, up to the call of
\* _save_guess_data: nothing after more than one turn; otherwise the lock
\* is taken, the cache is purged and loaded again, which fails as in
\* load_guesses, and the guesses are saved into the cache in memory.
StoreSave(r, key, answer) ==
    /\ Me(r).pc = "idle"
    /\ Me(r).ops < MaxOps
    /\ too_deep(key) \/ lock = "free"
    /\ LET me == [Me(r) EXCEPT !.ops = Me(r).ops + 1]
           data == IF guesses_file.exists THEN Parsed(guesses_file)
                   ELSE EmptyDict
       IN  IF too_deep(key)
           THEN /\ Becomes(r, me, Memory(r), Me(Peer(r)))
                /\ UNCHANGED lock
           ELSE IF \/ tempfile_exists(tmp_file)
                   \/ guesses_file.exists /\ ~Whole(guesses_file)
           THEN /\ Becomes(r, [me EXCEPT !.pc = "failed"], None, Me(Peer(r)))
                /\ UNCHANGED lock
           ELSE /\ Becomes(r, [me EXCEPT !.pc = "dump"],
                    SaveInto(data, key, 1, answer.rank, answer.guesses,
                        answer.foils),
                    Me(Peer(r)))
                /\ lock' = r
    /\ op' = [run |-> r, name |-> "save_guesses", key |-> key]
    /\ ret' = None
    /\ UNCHANGED <<guesses_file, tmp_file>>
    /\ StoreFrame

\* cache_fill, lines 20-54, in the run "main": after a turn of one of the
\* first guesses load_guesses found nothing in the cache in memory, and
\* _save_guesses_internal puts the guesses computed there.
StoreAdd(key, answer) ==
    /\ call.pc = "idle"
    /\ call.ops < MaxOps
    /\ cache_data # None
    /\ Len(key) = 1
    /\ HasKey(cache_data, key[1][1])
    /\ ~load_guesses(cache_data, key).error
    /\ load_guesses(cache_data, key).rank = NoRank
    /\ call' = [call EXCEPT !.ops = call.ops + 1,
                            !.unsaved_results = call.unsaved_results + 1]
    /\ cache_data' = SaveInto(cache_data, key, 1, answer.rank, answer.guesses,
                        answer.foils)
    /\ op' = [run |-> "main", name |-> "_save_guesses_internal", key |-> <<>>]
    /\ ret' = None
    /\ UNCHANGED <<guesses_file, tmp_file, lock, other>>
    /\ StoreFrame

\* cache_fill, lines 55-57 and 62-65, in the run "main": results wait to be
\* written and _save_guess_data is called, without the lock.
StoreFlush ==
    /\ call.pc = "idle"
    /\ call.unsaved_results > 0
    /\ call' = [call EXCEPT !.pc = "dump", !.unsaved_results = 0]
    /\ op' = [run |-> "main", name |-> "_save_guess_data", key |-> <<>>]
    /\ ret' = None
    /\ UNCHANGED <<cache_data, guesses_file, tmp_file, lock, other>>
    /\ StoreFrame

\* _save_guess_data: open(tmpfile, "w") makes the temporary file, or empties
\* the one that is there.
Open(r) ==
    /\ Me(r).pc = "dump"
    /\ tmp_file' = [exists |-> TRUE, text |-> <<>>]
    /\ Becomes(r, [Me(r) EXCEPT !.pc = "write", !.fd = "tmp", !.written = 0],
            Memory(r), Me(Peer(r)))
    /\ op' = [run |-> r, name |-> "open", key |-> <<>>]
    /\ ret' = None
    /\ UNCHANGED <<guesses_file, lock>>
    /\ StoreFrame

\* _save_guess_data: the next piece of the text goes to the file that the
\* descriptor is open on, at the offset of the descriptor; after the last
\* piece the file is closed.
Write(r) ==
    /\ Me(r).pc = "write"
    /\ LET text == Text(Memory(r))
           piece == text[Me(r).written + 1]
           last == Me(r).written + 1 = Len(text)
       IN  /\ Becomes(r, [Me(r) EXCEPT !.written = Me(r).written + 1,
                                      !.pc = IF last THEN "replace" ELSE "write",
                                      !.fd = IF last THEN "none" ELSE Me(r).fd],
                Memory(r), Me(Peer(r)))
           /\ tmp_file' = IF Me(r).fd = "tmp"
                          THEN [tmp_file EXCEPT !.text =
                                    WriteAt(tmp_file.text, Me(r).written, piece)]
                          ELSE tmp_file
           /\ guesses_file' = IF Me(r).fd = "live"
                              THEN [guesses_file EXCEPT !.text =
                                        WriteAt(guesses_file.text, Me(r).written,
                                            piece)]
                              ELSE guesses_file
    /\ op' = [run |-> r, name |-> "write", key |-> <<>>]
    /\ ret' = None
    /\ UNCHANGED lock
    /\ StoreFrame

\* _save_guess_data: os.replace(tmpfile, file), which fails when the
\* temporary file is not there any more; a descriptor that the other run
\* has open follows its file. save_guesses then releases the lock.
Replace(r) ==
    /\ Me(r).pc = "replace"
    /\ IF ~tmp_file.exists
       THEN /\ Becomes(r, [Me(r) EXCEPT !.pc = "failed"], None, Me(Peer(r)))
            /\ UNCHANGED <<guesses_file, tmp_file>>
       ELSE /\ guesses_file' = tmp_file
            /\ tmp_file' = NoFile
            /\ Becomes(r, [Me(r) EXCEPT !.pc = "idle"], Memory(r),
                    [Me(Peer(r)) EXCEPT !.fd =
                        IF Me(Peer(r)).fd = "tmp" THEN "live"
                        ELSE IF Me(Peer(r)).fd = "live" THEN "unlinked"
                        ELSE Me(Peer(r)).fd])
    /\ lock' = IF lock = r THEN "free" ELSE lock
    /\ op' = [run |-> r, name |-> "replace", key |-> <<>>]
    /\ ret' = None
    /\ StoreFrame

\* The run is interrupted in _save_guess_data: its memory and its descriptor
\* are gone, its lock is released, the files stay as they are.
Crash(r) ==
    /\ Me(r).pc \in {"dump", "write", "replace"}
    /\ Becomes(r, [Me(r) EXCEPT !.pc = "dead", !.fd = "none"], None, Me(Peer(r)))
    /\ lock' = IF lock = r THEN "free" ELSE lock
    /\ op' = [run |-> r, name |-> "interrupt", key |-> <<>>]
    /\ ret' = None
    /\ UNCHANGED <<guesses_file, tmp_file>>
    /\ StoreFrame

StoreNext ==
    \/ \E r \in Runs : \E key \in StoreTurns : StoreLoad(r, key)
    \/ \E key \in StoreTurns : \E answer \in Answers :
        StoreSave("other", key, answer)
    \/ \E key \in StoreTurns : \E answer \in Answers : StoreAdd(key, answer)
    \/ StoreFlush
    \/ \E r \in Runs : Open(r)
    \/ \E r \in Runs : Write(r)
    \/ \E r \in Runs : Replace(r)
    \/ \E r \in Runs : Crash(r)

StoreSpec == StoreInit /\ [][StoreNext]_vars

----------------------------------------------------------------------------
(* PoolSpec: best_guesses with worker processes, the progress counter and *)
(* the cache                                                              *)

\* A game on a Context with no cache file yet.
PoolInit ==
    /\ \E S \in SolutionLists :
        \E E \in SUBSET (Dictionary \ S) :
            /\ Cardinality(E) <= MaxOther
            /\ solution_group = Bound(WordGroup(S), 1)
            /\ guess_group = Bound(WordGroup(S \cup E), 1)
    /\ call = NoSolve
    /\ solution = None
    /\ turns = 0
    /\ op = "init"
    /\ guess = None
    /\ result = None
    /\ ret = None
    /\ ContextInit

\* The futures of one guess list with their workers: no guess yielded, no
\* count waiting, no failure.
PoolSubmitted(running, phase, order, length) ==
    LET futures == Submitted(running, phase, order, length)
    IN  [futures EXCEPT
            !.at = [k \in DOMAIN futures.chunks |-> 0],
            !.local = [k \in DOMAIN futures.chunks |-> 0],
            !.failed = {}]

\* The workers whose future has neither a result nor an exception.
Running == (DOMAIN call.chunks) \ (call.done \cup call.failed)

\* The update of the shared count by a worker, and what it would be if the
\* worker did not wait for the lock.
WithoutLock(holder, k) == TRUE

with_lock(holder, k) == holder = 0

\* future.result() raises when a future has the exception of its worker;
\* and what it would be if the exception were dropped.
NoException(failed) == FALSE

exception(failed) == failed # {}

\* best_guesses with mp processes and the cache, progress enabled or not,
\* when load_guesses finds nothing for the turns played: up to the
\* submission of the chunks of the solutions.
PoolStart(mp, enabled) ==
    \E solution_order \in Orders(solution_group.word_list) :
    /\ op \in Quiet
    /\ LET data == load_guess_data(cache_data, guesses_file)
           loaded == load_guesses(data, words_guessed)
           solutions == prepare_stats(solution_group)
           guesses == filter_guesses(guess_group, excluded_letters(solutions))
       IN  /\ ~loaded.error
           /\ ~cache_hit(loaded)
           /\ cache_data' = data
           /\ call' = PoolSubmitted(
                [path |-> "mp", words |-> guess_group.word_list, mp |-> mp,
                 phase |-> 1, order |-> <<>>, chunks |-> <<>>, results |-> <<>>,
                 done |-> {}, best |-> NoBest, ranked |-> 0, reordered |-> FALSE,
                 count |-> 0, length |-> Cardinality(guesses.word_list),
                 enabled |-> enabled, holder |-> 0, at |-> <<>>, local |-> <<>>,
                 failed |-> {}, before |-> guesses_file,
                 solutions |-> solution_group.word_list],
                1, solution_order, Cardinality(solutions.word_list))
           /\ solution_group' = Bound(solutions, solution_group.context)
           /\ guess_group' = Bound(guesses, guess_group.context)
    /\ op' = "mp"
    /\ UNCHANGED <<solution, turns, guess, result, ret, words_guessed,
                   guesses_file, store_vars>>

\* A worker takes the next guess of its chunk from ProgressWorker and ranks
\* it; with progress enabled the guess is counted in the worker.
WorkerRank(k) ==
    /\ op = "mp"
    /\ k \in Running
    /\ call.holder # k
    /\ call.at[k] < Len(call.chunks[k])
    /\ call' = [call EXCEPT
            !.at[k] = @ + 1,
            !.local[k] = IF call.enabled THEN @ + 1 ELSE @]
    /\ UNCHANGED <<solution_group, guess_group, solution, turns, op, guess,
                   result, ret, context_vars>>

\* ProgressWorker takes the lock of the count: after a tick, or when its
\* chunk is exhausted.
WorkerLock(k) ==
    /\ op = "mp"
    /\ call.enabled
    /\ k \in Running
    /\ call.holder # k
    /\ with_lock(call.holder, k)
    /\ call.at[k] <= Len(call.chunks[k])
    /\ call.local[k] > 0 \/ call.at[k] = Len(call.chunks[k])
    /\ call' = [call EXCEPT !.holder = k]
    /\ UNCHANGED <<solution_group, guess_group, solution, turns, op, guess,
                   result, ret, context_vars>>

\* ProgressWorker adds its count to the shared count and releases the
\* lock; after the last guess the iteration is over.
WorkerCount(k) ==
    /\ op = "mp"
    /\ k \in Running
    /\ call.holder = k
    /\ call' = [call EXCEPT
            !.count = @ + call.local[k],
            !.local[k] = 0,
            !.holder = 0,
            !.at[k] = IF @ = Len(call.chunks[k]) THEN @ + 1 ELSE @]
    /\ UNCHANGED <<solution_group, guess_group, solution, turns, op, guess,
                   result, ret, context_vars>>

\* _guess_rank_mp returns in a worker: the future has the best of the chunk.
WorkerReturned(k) ==
    /\ op = "mp"
    /\ k \in Running
    /\ call.at[k] = Len(call.chunks[k]) + (IF call.enabled THEN 1 ELSE 0)
    /\ call' = [call EXCEPT
            !.results[k] = guess_rank_mp(solution_group, call.chunks[k], 1, NoBest),
            !.done = @ \cup {k},
            !.reordered = @ \/ \E later \in call.done : later > k]
    /\ UNCHANGED <<solution_group, guess_group, solution, turns, op, guess,
                   result, ret, context_vars>>

\* A worker raises, and its future has the exception; or it is killed, the
\* pool is broken and every future without a result has the exception. A
\* lock held by a worker that is gone does not keep the driver.
WorkerFails(k, killed) ==
    /\ op = "mp"
    /\ k \in Running
    /\ LET failed == IF killed THEN (DOMAIN call.chunks) \ call.done
                     ELSE call.failed \cup {k}
       IN  call' = [call EXCEPT
                !.failed = failed,
                !.holder = IF @ \in failed THEN 0 ELSE @]
    /\ UNCHANGED <<solution_group, guess_group, solution, turns, op, guess,
                   result, ret, context_vars>>

\* The driver, once every future of the guess list has a result or an
\* exception: future.result() raises the exception of a worker, and
\* best_guesses ends there. Otherwise the results are merged in the order
\* of submission, and either the chunks of the guesses that are not
\* solutions are submitted, or the progress bar is completed (on the early
\* exit) and closed, which raises when the count is not the number of
\* guesses, the best guesses are filtered down to the solutions, saved in
\* the cache by save_guesses, and returned.
PoolCollect ==
    /\ op = "mp"
    /\ call.done \cup call.failed = DOMAIN call.chunks
    /\ LET best == MergeAll(call.best, call.results, 1)
           ranked == call.ranked + Len(call.order)
           others == guess_group.word_list \ solution_group.word_list
           early == rank_below_two(best.rank)
           progress == IF early /\ call.enabled THEN call.length ELSE call.count
           answer == Restricted(best, solution_group)
           saved == SaveInto(load_guess_data(None, guesses_file),
                        words_guessed, 1, answer.rank, answer.guesses, answer.foils)
       IN  IF exception(call.failed)
           THEN /\ op' = "error"
                /\ ret' = None
                /\ call' = [call EXCEPT !.phase = 3]
                /\ UNCHANGED <<cache_data, guesses_file>>
           ELSE IF call.phase = 1 /\ ~early /\ Cardinality(guess_group.word_list)
                    - Cardinality(solution_group.word_list) # 0
           THEN /\ \E other_order \in Orders(others) :
                    call' = PoolSubmitted(
                        [call EXCEPT !.best = best, !.ranked = ranked],
                        2, other_order,
                        Cardinality(guess_group.word_list)
                            - Cardinality(solution_group.word_list))
                /\ UNCHANGED <<op, ret, cache_data, guesses_file>>
           ELSE /\ call' = [call EXCEPT !.best = best, !.ranked = ranked,
                                        !.count = progress, !.phase = 3]
                /\ IF call.enabled /\ progress # call.length
                   THEN /\ op' = "error"
                        /\ ret' = None
                        /\ UNCHANGED <<cache_data, guesses_file>>
                   ELSE /\ op' = "best_guesses"
                        /\ ret' = answer
                        /\ IF too_deep(words_guessed)
                           THEN UNCHANGED <<cache_data, guesses_file>>
                           ELSE /\ cache_data' = saved
                                /\ guesses_file' = save_guess_data(saved)
    /\ UNCHANGED <<solution_group, guess_group, solution, turns, guess, result,
                   words_guessed, store_vars>>

PoolNext ==
    \/ \E mp \in 1..MaxWorkers : \E enabled \in BOOLEAN : PoolStart(mp, enabled)
    \/ \E k \in 1..MaxWorkers : WorkerRank(k)
    \/ \E k \in 1..MaxWorkers : WorkerLock(k)
    \/ \E k \in 1..MaxWorkers : WorkerCount(k)
    \/ \E k \in 1..MaxWorkers : WorkerReturned(k)
    \/ \E k \in 1..MaxWorkers : \E killed \in BOOLEAN : WorkerFails(k, killed)
    \/ PoolCollect
    \/ \E word \in Dictionary : \E coloring \in Results : Play(word, coloring)
    \/ SolveReturn

PoolSpec == PoolInit /\ [][PoolNext]_vars

----------------------------------------------------------------------------
(* LoopSpec: the loop of test_wordle on a solution *)

\* min() of a set of words: the first in the order of the strings.
least(words) ==
    CHOOSE w \in words : \A v \in words : w = v \/ TupleLess(w, v, 1)

\* The word list and the solutions of a game, with the solution to find.
LoopInit ==
    /\ \E S \in SolutionLists :
        \E E \in SUBSET (Dictionary \ S) :
            /\ Cardinality(E) <= MaxOther
            /\ solution_group = WordGroup(S)
            /\ guess_group = WordGroup(S \cup E)
            /\ solution \in S
    /\ call = NoCall
    /\ turns = 0
    /\ op = "init"
    /\ guess = None
    /\ result = None
    /\ ret = None
    /\ ContextInit

\* The first guess: the least of the best guesses for the solutions.
LoopStart ==
    /\ op = "init"
    /\ LET solutions == prepare_stats(solution_group)
           guesses == filter_guesses(guess_group, excluded_letters(solutions))
       IN  \E solution_order \in Orders(solutions.word_list) :
           \E other_order \in Orders(guesses.word_list \ solutions.word_list) :
                LET search == SingleLoop(solutions, solution_order \o other_order,
                                1, NoBest, Cardinality(solutions.word_list))
                    best == Restricted(search.best, solutions)
                IN  /\ ret' = best
                    /\ guess' = least(Range(best.guesses))
                    /\ solution_group' = solutions
                    /\ guess_group' = guesses
    /\ op' = "guess"
    /\ UNCHANGED <<call, solution, turns, result, context_vars>>

\* A turn of the loop: the guess gets the result of the solution; unless
\* it is all correct, the solutions are filtered, which has to remove one,
\* and the next guess is the least of the one or two solutions left, or
\* the least of the best guesses for them.
LoopTurn ==
    /\ op = "guess"
    /\ turns' = turns + 1
    /\ result' = wordle_result(guess, solution)
    /\ LET filtered == filter_solutions(solution_group, guess, result')
           left == Cardinality(filtered.word_list)
           solutions == prepare_stats(filtered)
           guesses == filter_guesses(guess_group, excluded_letters(solutions))
       IN  IF result' = AllCorrect
           THEN /\ op' = "success"
                /\ UNCHANGED <<solution_group, guess_group, guess, ret>>
           ELSE IF ~(left < Cardinality(solution_group.word_list)) \/ left = 0
           THEN /\ op' = "AssertionError"
                /\ solution_group' = filtered
                /\ UNCHANGED <<guess_group, guess, ret>>
           ELSE IF left <= 2
           THEN /\ op' = "guess"
                /\ solution_group' = filtered
                /\ guess' = least(filtered.word_list)
                /\ UNCHANGED <<guess_group, ret>>
           ELSE \E solution_order \in Orders(solutions.word_list) :
                \E other_order \in Orders(guesses.word_list \ solutions.word_list) :
                    LET search == SingleLoop(solutions,
                                    solution_order \o other_order, 1, NoBest,
                                    Cardinality(solutions.word_list))
                        best == Restricted(search.best, solutions)
                    IN  /\ op' = "guess"
                        /\ ret' = best
                        /\ guess' = least(Range(best.guesses))
                        /\ solution_group' = solutions
                        /\ guess_group' = guesses
    /\ UNCHANGED <<call, solution, context_vars>>

LoopNext == LoopStart \/ LoopTurn

LoopSpec == LoopInit /\ [][LoopNext]_vars

\* The loop has not returned: the first guess or a turn is to be made, and
\* it sets the position and may count a turn.
LoopRuns ==
    /\ op \in {"init", "guess"}
    /\ op' \in {"guess", "success", "AssertionError"}
    /\ turns' \in {turns, turns + 1}

\* The loop runs on: nothing stops the process between two turns, so
\* while the loop has not returned, its next step is taken.
LoopFairSpec == LoopSpec /\ WF_<<op, turns>>(LoopRuns)

----------------------------------------------------------------------------
(* RankSpec: the ranks of two guesses on one solution group *)

MaxRanked == 4

\* A solution group, a guess and the guess it is compared with.
RankInit ==
    /\ \E S \in SUBSET Dictionary :
        /\ S # {}
        /\ Cardinality(S) <= MaxRanked
        /\ solution_group = WordGroup(S)
    /\ guess \in Words
    /\ \E word \in Words : call = [against |-> word]
    /\ guess_group = WordGroup({})
    /\ solution = None
    /\ turns = 0
    /\ op = "init"
    /\ result = None
    /\ ret = None
    /\ ContextInit

\* guess_rank of the two guesses, as the loop over the guesses compares
\* the rank of each guess with the best rank so far.
RankPair ==
    /\ op = "init"
    /\ op' = "ranked"
    /\ ret' = [rank |-> guess_rank(solution_group, guess).rank,
               best_rank |-> guess_rank(solution_group, call.against).rank]
    /\ UNCHANGED <<solution_group, guess_group, call, solution, turns, guess,
                   result, context_vars>>

RankNext == RankPair

RankSpec == RankInit /\ [][RankNext]_vars

----------------------------------------------------------------------------
(* IndexSpec: the statistics of the word groups and of a copy *)

MaxCalls == 3

\* The statistics of a group: the objects its attributes _word_breakdown,
\* _word_contains and _letter_count refer to.
Stats(group) ==
    [word_breakdown |-> group.word_breakdown,
     word_contains |-> group.word_contains,
     letter_count |-> group.letter_count]

\* A group is its own word list and flag, and a reference to the statistics
\* among the objects (0 before any are made). The group as its methods see
\* it:
View(entry, objects) ==
    LET stats == IF entry.stats = 0 THEN Stats(WordGroup({}))
                 ELSE objects[entry.stats]
    IN  [word_list |-> entry.word_list,
         changed |-> entry.changed,
         word_breakdown |-> stats.word_breakdown,
         word_contains |-> stats.word_contains,
         letter_count |-> stats.letter_count]

\* Statistics that are rebuilt in the objects the group refers to.
RebuiltInPlace(objects, ref, stats) ==
    IF ref = 0 THEN Append(objects, stats) ELSE [objects EXCEPT ![ref] = stats]

\* _prepare_stats assigns new objects to the attributes of the group.
rebuilt(objects, ref, stats) == Append(objects, stats)

\* The objects after a method of a group, which prepares the statistics
\* first: new ones are made if the group was changed.
ObjectsAfter(entry, objects, after) ==
    IF entry.changed THEN rebuilt(objects, entry.stats, Stats(after)) ELSE objects

\* The group after a method that left it as `after`.
EntryAfter(entry, objects, after) ==
    [word_list |-> after.word_list,
     changed |-> after.changed,
     stats |-> IF Len(ObjectsAfter(entry, objects, after)) > Len(objects)
               THEN Len(objects) + 1 ELSE entry.stats]

\* WordGroup.__init__ from a list of words, as a group of the objects.
NewGroup(word_list) == [word_list |-> word_list, changed |-> TRUE, stats |-> 0]

Originals == {"solution", "guess"}

IndexInit ==
    /\ \E S \in SolutionLists :
        \E E \in SUBSET (Dictionary \ S) :
            /\ Cardinality(S) = MaxSolutions
            /\ Cardinality(E) = MaxOther
            /\ call = [objects |-> <<>>,
                       solution |-> NewGroup(S),
                       guess |-> NewGroup(S \cup E),
                       copied |-> None,
                       of |-> "none",
                       on |-> "none"]
            /\ solution_group = WordGroup(S)
            /\ guess_group = WordGroup(S \cup E)
    /\ ret = None
    /\ solution = None
    /\ turns = 0
    /\ op = "init"
    /\ guess = None
    /\ result = None
    /\ ContextInit

\* The groups a method can be called on: the two groups and the copy, if
\* one was made.
Callable(on) == on \in Originals \/ (on = "copied" /\ call.copied # None)

\* The class of a group: the copy has the class of its original.
ClassOf(on) == IF on = "copied" THEN call.of ELSE on

\* The state after a method of the group `on` that leaves it as
\* method[view of the group].
Called(name, on, after) ==
    LET entry == call[on]
        objects == ObjectsAfter(entry, call.objects, after)
        next == [call EXCEPT ![on] = EntryAfter(entry, call.objects, after),
                             !.objects = objects,
                             !.on = on]
    IN  /\ turns < MaxCalls
        /\ turns' = turns + 1
        /\ op' = name
        /\ call' = next
        /\ solution_group' = View(next.solution, objects)
        /\ guess_group' = View(next.guess, objects)
        /\ ret' = IF next.copied = None THEN None ELSE View(next.copied, objects)
        /\ UNCHANGED <<solution, context_vars>>

\* group.excluded_letters, which prepares the statistics.
ExcludedLetters(on) ==
    /\ Callable(on)
    /\ Called("excluded_letters", on, prepare_stats(View(call[on], call.objects)))
    /\ UNCHANGED <<guess, result>>

\* filter_solutions on the solution group or on a copy of it, with a word
\* and the result a solution gives it.
IndexFilterSolutions(on, word, target) ==
    /\ Callable(on)
    /\ ClassOf(on) = "solution"
    /\ UNCHANGED <<guess, result>>
    /\ Called("filter_solutions", on,
              filter_solutions(View(call[on], call.objects), word,
                               wordle_result(word, target)))

\* filter_guesses on the guess group or on a copy of it.
IndexFilterGuesses(on, excluded) ==
    /\ Callable(on)
    /\ ClassOf(on) = "guess"
    /\ UNCHANGED <<guess, result>>
    /\ Called("filter_guesses", on,
              filter_guesses(View(call[on], call.objects), excluded))

\* copy of one of the two groups, once: the statistics of the original are
\* prepared, the copy refers to them and has a word list of its own.
IndexCopy(on) ==
    LET entry == call[on]
        prepared == copy(View(entry, call.objects))
        objects == ObjectsAfter(entry, call.objects, prepared[1])
        original == EntryAfter(entry, call.objects, prepared[1])
        next == [call EXCEPT ![on] = original,
                             !.copied = [word_list |-> prepared[2].word_list,
                                         changed |-> prepared[2].changed,
                                         stats |-> original.stats],
                             !.objects = objects,
                             !.of = on,
                             !.on = on]
    IN  /\ on \in Originals
        /\ call.copied = None
        /\ turns < MaxCalls
        /\ turns' = turns + 1
        /\ op' = "copy"
        /\ call' = next
        /\ solution_group' = View(next.solution, objects)
        /\ guess_group' = View(next.guess, objects)
        /\ ret' = View(next.copied, objects)
        /\ UNCHANGED <<solution, guess, result, context_vars>>

IndexNext ==
    \/ \E on \in Originals \cup {"copied"} : ExcludedLetters(on)
    \/ \E on \in Originals \cup {"copied"} : \E word \in Dictionary :
            \E target \in call.solution.word_list :
                IndexFilterSolutions(on, word, target)
    \/ \E on \in Originals \cup {"copied"} : \E excluded \in SUBSET letters :
            IndexFilterGuesses(on, excluded)
    \/ \E on \in Originals : IndexCopy(on)

IndexSpec == IndexInit /\ [][IndexNext]_vars

----------------------------------------------------------------------------
(* GroupSpec: guess_rank and filter_solutions on any guess and any result *)

\* The word list of the solution group before the last filter_solutions.
NoFilter == [before |-> {}]

GroupInit ==
    /\ \E S \in SolutionLists : solution_group = WordGroup(S)
    /\ guess_group = WordGroup({})
    /\ call = NoFilter
    /\ solution = None
    /\ turns = 0
    /\ op = "init"
    /\ guess = None
    /\ result = None
    /\ ret = None
    /\ ContextInit

\* guess_rank(word) on the solution group: the rank and the foil, or the
\* AssertionError of a group with no partition.
GuessRank(word) ==
    /\ op \in Quiet
    /\ guess' = word
    /\ IF rank_found(solution_group, word)
       THEN /\ op' = "guess_rank"
            /\ ret' = guess_rank(solution_group, word)
       ELSE /\ op' = "AssertionError"
            /\ ret' = None
    /\ UNCHANGED <<solution_group, guess_group, call, solution, turns, result,
                   context_vars>>

\* filter_solutions(word, coloring) on the solution group, for any coloring.
FilterSolutions(word, coloring) ==
    /\ op \in Quiet
    /\ turns < MaxTurns
    /\ turns' = turns + 1
    /\ op' = "filter_solutions"
    /\ guess' = word
    /\ result' = coloring
    /\ call' = [before |-> solution_group.word_list]
    /\ solution_group' = filter_solutions(solution_group, word, coloring)
    /\ UNCHANGED <<guess_group, solution, ret, context_vars>>

\* The caller takes what the operation returned and goes on.
GroupReturn ==
    /\ op \in {"guess_rank", "filter_solutions"}
    /\ op' = "idle"
    /\ guess' = None
    /\ result' = None
    /\ ret' = None
    /\ call' = NoFilter
    /\ UNCHANGED <<solution_group, guess_group, solution, turns, context_vars>>

GroupNext ==
    \/ \E word \in Words : GuessRank(word)
    \/ \E word \in Words : \E coloring \in Results : FilterSolutions(word, coloring)
    \/ GroupReturn

GroupSpec == GroupInit /\ [][GroupNext]_vars

----------------------------------------------------------------------------
(* Claims *)

\* C4: wordle_result marks a position correct iff the letters match; for
\* each letter the number of its positions marked present is the minimum of
\* its guess positions that are not correct and its occurrences in the
\* solution not matched by a correct; the present marks are on the leftmost
\* positions of the letter that are not correct; every other position is
\* absent.
NotCorrect(word, target, letter) ==
    {index \in positions : word[index] = letter /\ target[index] # letter}

Unmatched(word, target, letter) ==
    {index \in positions : target[index] = letter /\ word[index] # letter}

C4_FeedbackMarks ==
    op = "wordle_result" =>
        /\ result \in Results
        /\ \A index \in positions :
            result[index] = "g" <=> guess[index] = solution[index]
        /\ \A l \in letters :
            LET present == {index \in positions :
                                guess[index] = l /\ result[index] = "y"}
                open == NotCorrect(guess, solution, l)
            IN  /\ Cardinality(present) =
                    Min(Cardinality(open),
                        Cardinality(Unmatched(guess, solution, l)))
                /\ present \subseteq open
                /\ \A i \in open, j \in present : i < j => i \in present

\* A guess that repeats a letter the solution has fewer times: one
\* occurrence is marked present and a later one absent.
C4_Witness ==
    /\ op = "wordle_result"
    /\ \E i \in positions, j \in positions :
        /\ i < j
        /\ guess[i] = guess[j]
        /\ result[i] = "y"
        /\ result[j] = "b"

\* C1: the partitions partition(guess) yields are non-empty, pairwise
\* disjoint, and their union is the solution group: each solution is in
\* exactly one partition.
C1_PartitionCovers ==
    op = "partition" =>
        /\ \A k \in DOMAIN ret : ret[k].solution_part # {}
        /\ \A j \in DOMAIN ret, k \in DOMAIN ret :
            j # k => ret[j].solution_part \cap ret[k].solution_part = {}
        /\ UNION {ret[k].solution_part : k \in DOMAIN ret}
            = solution_group.word_list
        /\ \A s \in solution_group.word_list :
            Cardinality({k \in DOMAIN ret : s \in ret[k].solution_part}) = 1

\* A guess that splits three solutions in a partition of two and one of one.
C1_Witness ==
    /\ op = "partition"
    /\ Len(ret) = 2
    /\ \E k \in DOMAIN ret : Cardinality(ret[k].solution_part) = 2

\* C2: for a result that some word gives the guess, filter_solutions on a
\* copy of the solution group leaves exactly the solutions that give the
\* guess this result; and every partition of partition(guess) is what
\* filter_solutions leaves for the result of the partition.
C2_FilterIsPartition ==
    /\ op = "restrict" =>
        ret.word_list =
            {s \in solution_group.word_list : wordle_result(guess, s) = result}
    /\ op = "partition" =>
        \A k \in DOMAIN ret :
            filter_solutions(copy(solution_group)[2], guess, ret[k].result).word_list
                = ret[k].solution_part

\* The guess repeats a letter, one occurrence absent and another present or
\* correct, and the filter keeps some solutions and removes others.
C2_Witness ==
    /\ op = "restrict"
    /\ \E i \in positions, j \in positions :
        /\ i # j
        /\ guess[i] = guess[j]
        /\ result[i] = "b"
        /\ result[j] # "b"
    /\ ret.word_list # {}
    /\ ret.word_list # solution_group.word_list

\* C3: the solution of the game is never eliminated by the results it gives,
\* after any sequence of turns; and filtering a copy by the result a
\* solution gives keeps that solution.
C3_SolutionRetained ==
    /\ solution \in solution_group.word_list
    /\ op = "restrict" =>
        \A s \in solution_group.word_list :
            wordle_result(guess, s) = result => s \in ret.word_list

\* Two turns that each eliminated a solution: the second filtered a group
\* of two down to the solution.
C3_Witness ==
    /\ op = "filter_solutions"
    /\ turns = 2
    /\ solution_group.changed
    /\ solution_group.word_list = {solution}
    /\ Cardinality(UNION Range(solution_group.word_breakdown[1])) = 2

\* The rank guess_rank gives a guess against the solutions of the state.
RankOf(word) == guess_rank(solution_group, word).rank

\* The size of the partition of the solutions that give the guess a result.
PartSize(word, coloring) ==
    Cardinality({s \in solution_group.word_list :
        wordle_result(word, s) = coloring})

\* C5: the score best_guesses returns is the minimum of the ranks of the
\* solutions and of the remaining guesses, every guess returned has this
\* rank, there are as many foils as guesses, and the foil of a guess is the
\* result of a largest partition of the guess.
C5_BestIsMinimum ==
    op = "best_guesses" =>
        LET candidates == solution_group.word_list \cup guess_group.word_list
        IN  /\ \A g \in candidates : ~rank_less(RankOf(g), ret.rank)
            /\ Len(ret.guesses) = Len(ret.foils)
            /\ Len(ret.guesses) >= 1
            /\ \A i \in 1..Len(ret.guesses) :
                /\ ret.guesses[i] \in candidates
                /\ RankOf(ret.guesses[i]) = ret.rank
                /\ \A s \in solution_group.word_list :
                    PartSize(ret.guesses[i], wordle_result(ret.guesses[i], s))
                        <= PartSize(ret.guesses[i], ret.foils[i])

\* The whole list was ranked and the best guesses are ties that are not
\* solutions, every solution ranks worse.
C5_Witness ==
    /\ op = "best_guesses"
    /\ ~call.early
    /\ Len(ret.guesses) >= 2
    /\ \A s \in solution_group.word_list : rank_less(ret.rank, RankOf(s))

\* C6: if a guess of the minimal rank is a solution, every guess returned
\* is a solution, with its own foil; for two solutions the guesses returned
\* are among the two.
C6_SolutionsFirst ==
    op = "best_guesses" =>
        /\ (\E s \in solution_group.word_list : RankOf(s) = ret.rank) =>
            \A i \in 1..Len(ret.guesses) :
                /\ ret.guesses[i] \in solution_group.word_list
                /\ ret.foils[i] = guess_rank(solution_group, ret.guesses[i]).foil
        /\ Cardinality(solution_group.word_list) = 2 =>
            Range(ret.guesses) \subseteq solution_group.word_list

\* A guess that is no solution has the minimal rank as a solution has, was
\* tracked with it, and is not returned.
C6_Witness ==
    /\ op = "best_guesses"
    /\ \E g \in guess_group.word_list \ solution_group.word_list :
        /\ RankOf(g) = ret.rank
        /\ g \in Range(call.best.guesses)
        /\ g \notin Range(ret.guesses)
    /\ Range(ret.guesses) \subseteq solution_group.word_list

\* The guess and foil pairs of a result.
Pairs(best) == {<<best.guesses[i], best.foils[i]>> : i \in 1..Len(best.guesses)}

\* best_guesses in a single process on a word list and a list of solutions,
\* the solutions and the other guesses ranked in the orders given.
SingleResult(words, solutions_list, solution_order, other_order) ==
    LET solutions == prepare_stats(WordGroup(solutions_list))
    IN  Restricted(
            SingleLoop(solutions, solution_order \o other_order, 1, NoBest,
                Cardinality(solutions.word_list)).best,
            solutions)

\* The guesses of a word list that are not solutions, after filter_guesses.
OtherGuesses(words, solutions_list) ==
    LET solutions == prepare_stats(WordGroup(solutions_list))
    IN  filter_guesses(WordGroup(words), excluded_letters(solutions)).word_list
            \ solutions_list

\* C8: with processes, best_guesses returns the rank and the set of guess
\* and foil pairs that the single process returns for the same word list
\* and solutions in any order of its lists, whatever the number of processes and the order in which
\* the workers complete; and every guess of a submitted list is in exactly
\* one chunk, once.
C8_ParallelIsSequential ==
    /\ op = "mp" =>
        \A g \in Range(call.order) :
            Cardinality({<<k, i>> \in (DOMAIN call.chunks) \X (1..Len(call.order)) :
                i \in DOMAIN call.chunks[k] /\ call.chunks[k][i] = g}) = 1
    /\ op # "error"
    /\ (op = "best_guesses" /\ call.path = "mp") =>
        \A solution_order \in Orders(solution_group.word_list) :
            \A other_order \in Orders(
                    OtherGuesses(call.words, solution_group.word_list)) :
                LET single == SingleResult(call.words, solution_group.word_list,
                                solution_order, other_order)
                IN  /\ ret.rank = single.rank
                    /\ Pairs(ret) = Pairs(single)

\* Two processes, the second chunk completed before the first, and the
\* guesses that are not solutions were ranked too.
C8_Witness ==
    /\ op = "best_guesses"
    /\ call.path = "mp"
    /\ call.mp = 2
    /\ call.reordered
    /\ ~call.early
    /\ call.ranked > Cardinality(solution_group.word_list)

\* The letters that no solution of the state contains.
Excluded ==
    {l \in letters : \A s \in solution_group.word_list : l \notin Range(s)}

\* C9: for every guess filter_guesses removed, a guess it kept ranks at
\* least as well against the solutions, so the minimum of the ranks over
\* the guesses is what it was; and it removes no word without an excluded
\* letter.
C9_FilterKeepsBest ==
    op \in {"best_guesses", "mp"} =>
        /\ guess_group.word_list \subseteq call.words
        /\ \A w \in call.words \ guess_group.word_list :
            /\ Range(w) \cap Excluded # {}
            /\ \E k \in guess_group.word_list : ~rank_less(RankOf(w), RankOf(k))
        /\ \E k \in guess_group.word_list :
            \A w \in call.words : ~rank_less(RankOf(w), RankOf(k))

\* A guess with an excluded letter and a letter of the solutions was
\* removed, and a guess with an excluded letter was kept.
C9_Witness ==
    /\ op = "best_guesses"
    /\ \E w \in call.words \ guess_group.word_list :
        Range(w) \ Excluded # {}
    /\ \E k \in guess_group.word_list : Range(k) \cap Excluded # {}

\* C10: when the search stops early, every solution was ranked, and
\* ranking the remaining guesses too, in any order, gives the same rank,
\* guesses and foils.
C10_EarlyExitSame ==
    op = "best_guesses" =>
        /\ call.ranked >= Cardinality(solution_group.word_list)
        /\ call.early =>
            /\ rank_below_two(ret.rank)
            /\ \A rest \in Orders(guess_group.word_list \ solution_group.word_list) :
                Restricted(guess_rank_mp(solution_group, rest, 1, call.best),
                    solution_group) = ret

\* The search stopped early with guesses left that are not solutions, one
\* of them of the rank returned.
C10_Witness ==
    /\ op = "best_guesses"
    /\ call.early
    /\ call.ranked < Cardinality(guess_group.word_list)
    /\ \E g \in guess_group.word_list \ solution_group.word_list :
        RankOf(g) = ret.rank

\* What load_guesses returns for what was saved: the rank, the guesses in
\* alphabetical order and the foil of each guess at its place.
RoundTrip(saved, loaded) ==
    /\ ~loaded.error
    /\ loaded.rank = saved.rank
    /\ Range(loaded.guesses) = Range(saved.guesses)
    /\ Len(loaded.guesses) = Len(saved.guesses)
    /\ Len(loaded.foils) = Len(saved.guesses)
    /\ \A i \in 1..(Len(loaded.guesses) - 1) :
        TupleLess(loaded.guesses[i], loaded.guesses[i + 1], 1)
    /\ \A i \in 1..Len(loaded.guesses) : \A j \in 1..Len(saved.guesses) :
        loaded.guesses[i] = saved.guesses[j] => loaded.foils[i] = saved.foils[j]

\* load_guesses returned for the turns that the last save_guesses was
\* called at.
LoadedAfterSave ==
    /\ op \in {"load_guesses", "ValueError"}
    /\ call.saves > 0
    /\ call.key = words_guessed

ParentCached ==
    \A turn \in 1..Len(words_guessed) :
        HasKey(load_guess_data(None, guesses_file), words_guessed[turn][1])

C11_RankBounds ==
    (op \in {"guess_rank", "AssertionError"} /\ solution_group.word_list # {}) =>
        /\ op = "guess_rank"
        /\ ret.rank.den > 0
        /\ ret.rank.num >= ret.rank.den
        /\ ret.rank.num < (Cardinality(solution_group.word_list) + 1) * ret.rank.den
        /\ PartSize(guess, ret.foil) >= 1
        /\ \A coloring \in Results : PartSize(guess, coloring) <= PartSize(guess, ret.foil)

\* A guess that gives every one of three solutions the same result, which
\* is its foil: the rank is the largest a group of three has.
C11_Witness ==
    /\ op = "guess_rank"
    /\ Cardinality(solution_group.word_list) = 3
    /\ PartSize(guess, ret.foil) = 3
    /\ ret.rank = Rank(3, 1)

\* C12: filter_solutions with any guess and any result, realizable or not,
\* only removes words: the solutions after the call are among the solutions
\* before it, and are not more.
C12_FilterShrinks ==
    op = "filter_solutions" =>
        /\ solution_group.word_list \subseteq call.before
        /\ Cardinality(solution_group.word_list) <= Cardinality(call.before)

\* A result that no word gives the guess, filtered on the group that an
\* earlier call had reduced, removed some solutions and kept others.
C12_Witness ==
    /\ op = "filter_solutions"
    /\ turns = 2
    /\ result \notin FeedbacksOf(guess)
    /\ solution_group.word_list # {}
    /\ solution_group.word_list # call.before

\* C13: when the guess group and the solution group of best_guesses belong to
\* different contexts, the call ends in an error: no guess is eliminated,
\* the cache is neither read (nothing is loaded into memory) nor written,
\* no word is ranked, and both groups are as they were.
C13_MismatchedContexts ==
    [][(/\ op \in Quiet
        /\ op' \in {"best_guesses", "ValueError"}
        /\ guess_group.context # solution_group.context)
            => /\ op' = "ValueError"
               /\ ret' = None
               /\ call'.ranked = 0
               /\ solution_group' = solution_group
               /\ guess_group' = guess_group
               /\ cache_data' = cache_data
               /\ guesses_file' = guesses_file]_vars

\* A search with the cache enabled, after a turn, between groups of two
\* contexts, with a guess that the search would have eliminated.
C13_Witness ==
    /\ op = "ValueError"
    /\ call.cache
    /\ guess_group.context # solution_group.context
    /\ turns = 1
    /\ Cardinality(solution_group.word_list) >= 2
    /\ filter_guesses(guess_group,
            excluded_letters(prepare_stats(solution_group))).word_list
                # guess_group.word_list
    /\ cache_data = None

\* What the cache holds for the turns played: the answer of load_guesses on
\* the memory of the Context, or on the file when nothing is in memory.
Held ==
    load_guesses(load_guess_data(cache_data, guesses_file), words_guessed)

\* C14: when the cache is enabled and holds a result for the turns played,
\* best_guesses returns the stored rank, guesses and foils, ranks no word,
\* eliminates no guess, and leaves the content of the cache as it was, in
\* memory and in the file.
C14_CacheHit ==
    [][(/\ op \in Quiet
        /\ op' \in {"best_guesses", "ValueError"}
        /\ call'.cache
        /\ guess_group.context = solution_group.context
        /\ ~Held.error
        /\ Held.rank # NoRank)
            => /\ op' = "best_guesses"
               /\ ret' = [rank |-> Held.rank, guesses |-> Held.guesses,
                          foils |-> Held.foils]
               /\ call'.ranked = 0
               /\ solution_group' = solution_group
               /\ guess_group' = guess_group
               /\ cache_data' = load_guess_data(cache_data, guesses_file)
               /\ guesses_file' = guesses_file]_vars

\* A hit after a turn: the result was stored under the first guess, and the
\* solutions left are several.
C14_Witness ==
    /\ op = "best_guesses"
    /\ call.path = "cache"
    /\ turns = 1
    /\ Cardinality(solution_group.word_list) >= 2
    /\ Len(ret.guesses) >= 1
    /\ guesses_file.exists

\* The sequences of two turns.
DeepTurns ==
    {<<first, second>> : first, second \in CacheWords \X CacheFoils}

\* load_guesses finds nothing in the cache for any sequence of two turns.
NothingDeep(data) ==
    \A guessed \in DeepTurns :
        load_guesses(data, guessed) =
            [error |-> FALSE, rank |-> NoRank, guesses |-> <<>>, foils |-> <<>>]

\* C15: whatever next_turn, reset, load_guesses, save_guesses and the calls
\* of cache_fill did, the cache in memory and the cache file hold nothing
\* for a sequence of more than one turn, load_guesses after more than one
\* turn returns no rank and no guess, and save_guesses after more than one
\* turn changes neither the cache in memory nor the file.
C15_OnlyShallow ==
    /\ [](/\ cache_data # None => NothingDeep(cache_data)
          /\ NothingDeep(load_guess_data(None, guesses_file))
          /\ (op = "load_guesses" /\ Len(words_guessed) > 1) =>
                /\ ret.rank = NoRank
                /\ ret.guesses = <<>>
                /\ ret.foils = <<>>
          /\ op # "ValueError")
    /\ [][(op' = "save_guesses" /\ Len(words_guessed) > 1) =>
            /\ cache_data' = cache_data
            /\ guesses_file' = guesses_file]_vars

\* save_guesses after two turns, the first with a guess that the cache in
\* memory holds at depth 0.
C15_Witness ==
    /\ op = "save_guesses"
    /\ Len(words_guessed) = 2
    /\ cache_data # None
    /\ HasKey(cache_data, words_guessed[1][1])
    /\ guesses_file.exists

\* C16: a call of best_guesses that stores its result in the cache had three
\* solutions or more.
C16_StoredFromThree ==
    (op = "best_guesses" /\ call.stored) => Cardinality(call.solutions) >= 3

\* C17: when the partition of a first guess is exhausted, cache_results is
\* the set of the results whose partition has more than two solutions; if
\* the results the cache has under the guess differ from it, the run ends
\* with exit(1), the cache in memory is not changed, the file only gets the
\* results that were waiting to be written and still has the results that
\* differ, and nothing runs after; otherwise the run goes on, the two sets
\* being equal.
C17_CoherencyCheck ==
    /\ [][op' \in {"No cache", "Cached", "Added"} =>
            (result' \in call'.cache_results <=> call'.size > 2)]_vars
    /\ [][(call.pc = "loop" /\ op' \in {"check", "exit"}) =>
            LET word == call.guesses[call.index]
                stored == real_cache_results(cache_data, word).results
            IN  /\ cache_data' = cache_data
                /\ guesses_file' = IF call.unsaved_results > 0
                                   THEN save_guess_data(cache_data)
                                   ELSE guesses_file
                /\ real_cache_results(load_guess_data(None, guesses_file'),
                        word).results = stored
                /\ IF stored # call.cache_results
                   THEN op' = "exit" /\ call'.pc = "exit"
                   ELSE op' = "check" /\ call'.pc \in {"loop", "done"}]_vars
    /\ [][call.pc # "exit"]_vars

\* The run stopped on a guess under which the cache has a result that was
\* computed and a result that was not.
C17_Witness ==
    /\ op = "exit"
    /\ call.cache_results # {}
    /\ call.cache_results \subseteq
            real_cache_results(cache_data, call.guesses[call.index]).results
    /\ call.cache_results #
            real_cache_results(cache_data, call.guesses[call.index]).results
    /\ real_cache_results(load_guess_data(None, guesses_file),
            call.guesses[call.index]).results
        = real_cache_results(cache_data, call.guesses[call.index]).results

\* The file holds a whole document with a result for the turns of key.
Saved(file, key) ==
    /\ Whole(file)
    /\ ~load_guesses(Parsed(file), key).error
    /\ load_guesses(Parsed(file), key).rank # NoRank

\* C18: a step that changes the cache file or its temporary file is made by
\* the run that holds the lock of the store, the writes of the run of
\* cache_fill included; and a result that the file has after one turn is
\* still there after a write, unless the write is the one of a save_guesses
\* under the lock.
C18_LockedAccess ==
    /\ [][(guesses_file' # guesses_file \/ tmp_file' # tmp_file) =>
            lock = op'.run]_vars
    /\ [][\A key \in StoreTurns :
            (Len(key) = 1 /\ Saved(guesses_file, key)) =>
                \/ Saved(guesses_file', key)
                \/ op'.name = "replace" /\ lock = op'.run]_vars

\* C19: the cache file only changes in the step os.replace of a run, which
\* leaves in it the whole text of the document that the run was saving and
\* takes the temporary file away; so at every instant, and whatever step a
\* run is interrupted at, the file holds a whole document: the one saved
\* before or the one being saved.
C19_AtomicSave ==
    /\ [](guesses_file.exists => Whole(guesses_file))
    /\ [][guesses_file' # guesses_file =>
            /\ op'.name = "replace"
            /\ Me(op'.run).pc = "replace"
            /\ guesses_file' =
                    [exists |-> TRUE, text |-> Text(Memory(op'.run))]
            /\ tmp_file' = NoFile]_vars


\* The run that made the step, and the cache it has in memory, after the
\* step.
MeAfter == IF op'.run = "main" THEN call' ELSE other'.run

MemoryAfter == IF op'.run = "main" THEN cache_data' ELSE other'.data

\* C20 as stated: a call of load_guesses or of save_guesses made while the
\* temporary file exists ends in a fatal error, with no cache in memory,
\* nothing returned and the cache file as it was.
C20_TmpRefused ==
    [][(tmp_file.exists /\ op'.name \in {"load_guesses", "save_guesses"}) =>
            /\ MeAfter.pc = "failed"
            /\ MemoryAfter = None
            /\ ret' = None
            /\ guesses_file' = guesses_file]_vars

\* C20, amended: while the temporary file exists, a call that has to read
\* the cache file (load_guesses with no cache in memory, save_guesses after
\* at most one turn) ends in a fatal error, with no cache in memory,
\* nothing returned, and the files and the lock as they were; load_guesses
\* with the cache in memory answers from memory, and save_guesses after
\* more than one turn returns with nothing done; neither changes a file.
C20_TmpRefusedAtRead ==
    [][tmp_file.exists =>
        /\ (\/ op'.name = "load_guesses" /\ Memory(op'.run) = None
            \/ op'.name = "save_guesses" /\ ~too_deep(op'.key)) =>
                /\ MeAfter.pc = "failed"
                /\ MemoryAfter = None
                /\ ret' = None
                /\ UNCHANGED <<guesses_file, tmp_file, lock>>
        /\ (op'.name = "load_guesses" /\ Memory(op'.run) # None) =>
                /\ \/ MeAfter.pc = "failed"
                         /\ load_guesses(Memory(op'.run), op'.key).error
                   \/ MeAfter.pc = "idle"
                         /\ MemoryAfter = Memory(op'.run)
                         /\ ret' = load_guesses(Memory(op'.run), op'.key)
                /\ UNCHANGED <<guesses_file, tmp_file, lock>>
        /\ (op'.name = "save_guesses" /\ too_deep(op'.key)) =>
                /\ MeAfter.pc = "idle"
                /\ MemoryAfter = Memory(op'.run)
                /\ UNCHANGED <<guesses_file, tmp_file, lock>>]_vars

\* A run was interrupted while it saved and left the temporary file next
\* to a whole cache file, and the load_guesses of the other run, which had
\* no cache in memory, failed.
C20_Witness ==
    /\ op.name = "load_guesses"
    /\ tmp_file.exists
    /\ Whole(guesses_file)
    /\ Me(Peer(op.run)).pc = "dead"
    /\ Me(op.run).pc = "failed"
    /\ Memory(op.run) = None


\* C21: with worker processes, the cache in memory and the cache file only
\* change in the step of the driver that returns the best guesses, when
\* every future of the guess list has its result and none an exception
\* (the results of the solutions were collected before the other guesses
\* were submitted); and once a worker raised or was killed, best_guesses
\* does not return: it ends in error, with the cache file as it was when
\* it was called.
C21_DriverWritesLast ==
    /\ [][(op = "mp" /\ (guesses_file' # guesses_file \/ cache_data' # cache_data)) =>
            /\ op' = "best_guesses"
            /\ call.done = DOMAIN call.chunks
            /\ call.failed = {}
            /\ call'.ranked = call.ranked + Len(call.order)]_vars
    /\ [][(op = "mp" /\ call.failed # {}) =>
            /\ op' \in {"mp", "error"}
            /\ call'.failed # {}
            /\ guesses_file' = guesses_file]_vars
    /\ [](op \in {"mp", "error"} => guesses_file = call.before)

\* After a turn of a game whose first guesses are in the cache file, the
\* worker of one chunk returned, the worker of another failed, and
\* best_guesses ended in error.
C21_Witness ==
    /\ op = "error"
    /\ call.failed # {}
    /\ call.done # {}
    /\ words_guessed # <<>>
    /\ guesses_file.exists
    /\ guesses_file = call.before


C23_EnumerationComplete ==
    op = "wordle_result" =>
        /\ is_result_possible(guess, result)
        /\ ~(count(result, "y") = 1 /\ count(result, "b") = 0)
        /\ result \in possible_results(guess)

\* A repeated letter of the guess is present at its first place and absent
\* at a later one, and it is the only present letter of the result.
C23_Witness ==
    /\ op = "wordle_result"
    /\ count(result, "y") = 1
    /\ \E i \in positions : \E j \in positions :
            /\ i < j
            /\ guess[i] = guess[j]
            /\ result[i] = "y"
            /\ result[j] = "b"

\* The keys of the dictionary of partition in the order of their insertion,
\* when the solutions are iterated in a given order.
RECURSIVE InsertionOrder(_, _, _, _)
InsertionOrder(order, word, k, keys) ==
    IF k > Len(order) THEN keys
    ELSE LET coloring == wordle_result(word, order[k])
         IN  InsertionOrder(order, word, k + 1,
                IF coloring \in Range(keys) THEN keys ELSE Append(keys, coloring))

\* sorted() by _result_key, which keeps the order of keys that compare equal.
RECURSIVE StableSorted(_, _, _)
StableSorted(keys, k, placed) ==
    IF k > Len(keys) THEN placed
    ELSE LET before == {i \in 1..Len(placed) : ~result_key_less(keys[k], placed[i])}
             at == Cardinality(before)
         IN  StableSorted(keys, k + 1,
                SubSeq(placed, 1, at) \o <<keys[k]>> \o SubSeq(placed, at + 1, Len(placed)))

\* The foil of guess_rank when the solutions are iterated in a given order.
FoilIterated(order, word) ==
    LET keys == StableSorted(InsertionOrder(order, word, 1, <<>>), 1, <<>>)
        parts == [k \in 1..Len(keys) |->
                    [result |-> keys[k],
                     solution_part |-> {s \in Range(order) :
                                            wordle_result(word, s) = keys[k]}]]
    IN  RankLoop(parts, 1, 0, None).foil

\* The weighted count of a result: a weight for Absent, 2 for Present, 4
\* for Correct.
WeightedCount(coloring, absent) ==
    count(coloring, "b") * absent + count(coloring, "y") * 2 + count(coloring, "g") * 4

\* left comes before right: lower weighted count first, then the symbols
\* by position in the order Absent < Present < Correct.
MoreBlackFirst(left, right, absent) ==
    \/ WeightedCount(left, absent) < WeightedCount(right, absent)
    \/ /\ WeightedCount(left, absent) = WeightedCount(right, absent)
       /\ TupleLess(sort_order(left), sort_order(right), 1)

\* The partitions of maximal size of a guess on the solution group.
Largest(word) ==
    LET part(coloring) == {s \in solution_group.word_list :
                            wordle_result(word, s) = coloring}
    IN  {coloring \in Results :
            /\ part(coloring) # {}
            /\ \A another \in Results :
                Cardinality(part(another)) <= Cardinality(part(coloring))}

\* The foil is the first of the partitions of maximal size in the order of
\* the weighted count, the order is total, and the foil is the same for
\* every iteration order of the solution set.
FirstLargest(absent) ==
    /\ ret.foil \in Largest(guess)
    /\ \A another \in Largest(guess) \ {ret.foil} :
            MoreBlackFirst(ret.foil, another, absent)
    /\ \A left \in Results : \A right \in Results \ {left} :
            MoreBlackFirst(left, right, absent) # MoreBlackFirst(right, left, absent)
    /\ \A order \in Orders(solution_group.word_list) :
            FoilIterated(order, guess) = ret.foil

\* C24: the foil guess_rank returns is the first partition of maximal size
\* in the order of the weighted count (Absent = 0, Present = 2, Correct = 4,
\* lowest first) and then of the symbols by position (Absent < Present <
\* Correct); of two distinct results exactly one comes before the other; and
\* the foil is the same for every iteration order of the solution set.
C24_FoilOrder == op = "guess_rank" => FirstLargest(0)

\* C24, amended: the same with the weighted count Absent = 1, Present = 2,
\* Correct = 4: a result with more present letters comes before one with
\* the same count of Absent = 0 weights and fewer present letters.
C24_FoilOrderAbsentOne == op = "guess_rank" => FirstLargest(1)

\* Two partitions of maximal size, and the one that comes first with
\* Absent = 0 is not the foil.
C24_Witness ==
    /\ op = "guess_rank"
    /\ \E another \in Largest(guess) \ {ret.foil} :
            /\ MoreBlackFirst(another, ret.foil, 0)
            /\ MoreBlackFirst(ret.foil, another, 1)

\* The partitions of a word on the solution group: the solutions that give
\* the word the same result.
Parts(word) ==
    LET colorings == [s \in solution_group.word_list |-> wordle_result(word, s)]
    IN  {{s \in DOMAIN colorings : colorings[s] = colorings[t]} :
            t \in DOMAIN colorings}

\* The size of the largest partition of a word, and the number of its
\* partitions.
LargestPart(word) ==
    LET sizes == {Cardinality(part) : part \in Parts(word)}
    IN  CHOOSE n \in sizes : \A size \in sizes : size <= n

PartCount(word) == Cardinality(Parts(word))

\* C25: the score of guess_rank is the size of the largest partition plus
\* 1 / (partitions + 1), strictly between that size and the size plus one;
\* it is lower than the score of a word with a larger largest partition,
\* and lower than the score of a word with the same largest partition and
\* fewer partitions.
C25_ScoreOrder ==
    op = "ranked" =>
        /\ ret.rank.num * (PartCount(guess) + 1) =
                (LargestPart(guess) * (PartCount(guess) + 1) + 1) * ret.rank.den
        /\ LargestPart(guess) * ret.rank.den < ret.rank.num
        /\ ret.rank.num < (LargestPart(guess) + 1) * ret.rank.den
        /\ LargestPart(guess) < LargestPart(call.against) =>
                rank_less(ret.rank, ret.best_rank)
        /\ (/\ LargestPart(guess) = LargestPart(call.against)
            /\ PartCount(guess) > PartCount(call.against)) =>
                rank_less(ret.rank, ret.best_rank)

\* Two guesses with the same largest partition, of two solutions, one with
\* two partitions and one with three.
C25_Witness ==
    /\ op = "ranked"
    /\ LargestPart(guess) = 2
    /\ LargestPart(call.against) = 2
    /\ PartCount(guess) = 3
    /\ PartCount(call.against) = 2

\* The statistics of a group are those of a word list: by position every
\* word is in the bucket of its letter and of no other; a word is in the
\* bucket of the letters it contains and of no other; for each letter a
\* word is in the bucket of the number of times it has the letter, if any,
\* and in no other; and the buckets hold no other word.
IndexOf(group, word_list) ==
    /\ \A index \in positions : \A l \in letters :
            /\ group.word_breakdown[index][l] \subseteq word_list
            /\ \A word \in word_list :
                    word \in group.word_breakdown[index][l] <=> l = word[index]
    /\ \A l \in letters :
            /\ group.word_contains[l] \subseteq word_list
            /\ \A word \in word_list :
                    word \in group.word_contains[l] <=>
                        \E index \in positions : word[index] = l
    /\ \A l \in letters : \A c \in positions :
            /\ group.letter_count[l][c] \subseteq word_list
            /\ \A word \in word_list :
                    word \in group.letter_count[l][c] <=>
                        Cardinality({index \in positions : word[index] = l}) = c

\* The group the last method was called on.
Called_on ==
    IF call.on = "solution" THEN solution_group
    ELSE IF call.on = "guess" THEN guess_group
    ELSE ret

\* C26: after the statistics of a group are built (by excluded_letters, or
\* by copy for the original and the copy), every word of the group is in
\* exactly the buckets of its letters by position, of the letters it
\* contains and of its letter counts, and no bucket holds a word that is
\* not in the group.
C26_IndexBuilt ==
    /\ op = "excluded_letters" =>
            /\ ~Called_on.changed
            /\ IndexOf(Called_on, Called_on.word_list)
    /\ op = "copy" =>
            /\ ~Called_on.changed
            /\ IndexOf(Called_on, Called_on.word_list)
            /\ IndexOf(ret, ret.word_list)

\* The statistics were built again after a filter removed words: the group
\* refers to the second statistics made for it, and has a word with a
\* repeated letter and a word without.
C26_Witness ==
    /\ op = "excluded_letters"
    /\ turns = 3
    /\ call.on = "solution"
    /\ call.solution.stats = 2
    /\ call.objects[1] # call.objects[2]
    /\ \E word \in solution_group.word_list : \E l \in letters : count(word, l) = 2
    /\ \E word \in solution_group.word_list : \A l \in letters : count(word, l) <= 1

\* A group whose flag is clear has the statistics of its word list.
Clean(group) == group.changed \/ IndexOf(group, group.word_list)

\* A filter that removed words set the flag, and it used the statistics of
\* the word list it started with.
Filtered(before, after) ==
    /\ after.word_list \subseteq before.word_list
    /\ after.word_list # before.word_list => after.changed
    /\ IndexOf(after, before.word_list)

\* C27: a group whose flag is clear has the statistics of its word list,
\* for the two groups and the copy, after any construction, copy,
\* filter_solutions and filter_guesses; a filter that removed words sets
\* the flag and used statistics built for the word list it started with;
\* and a method of the copy changes neither the word list nor the
\* statistics of the two groups.
C27_DirtyFlag ==
    /\ [](/\ Clean(solution_group)
          /\ Clean(guess_group)
          /\ call.copied # None => Clean(ret))
    /\ [][op' \in {"filter_solutions", "filter_guesses"} =>
            /\ call'.on = "solution" => Filtered(solution_group, solution_group')
            /\ call'.on = "guess" => Filtered(guess_group, guess_group')
            /\ call'.on = "copied" => Filtered(ret, ret')]_vars
    /\ [][(call'.on = "copied" /\ op' # "copy") =>
            /\ solution_group' = solution_group
            /\ guess_group' = guess_group]_vars

\* A filter removed words from the copy of a group, and the next method of
\* the copy built statistics for it: the copy no longer refers to the
\* statistics of the original, whose flag is clear.
C27_Witness ==
    /\ turns = 3
    /\ call.on = "copied"
    /\ call.copied.stats # call[call.of].stats
    /\ ret.word_list # call[call.of].word_list
    /\ ret.word_list # {}
    /\ ~call[call.of].changed
    /\ Stats(ret) # call.objects[call[call.of].stats]

\* C28: no step of best_guesses, in one process or with worker processes
\* (the ranking of the guesses and the partitions it makes, the workers,
\* the merge), adds or removes a solution; the guess group changes only in
\* the step that starts the search, where filter_guesses removes words
\* from it and adds none.
C28_SolutionsUntouched ==
    /\ [][solution_group'.word_list = solution_group.word_list]_vars
    /\ [][guess_group' # guess_group =>
            /\ op = "init"
            /\ guess_group'.word_list \subseteq guess_group.word_list]_vars

\* A search with two worker processes returned the best guesses for three
\* solutions, and filter_guesses removed a word from the guess group.
C28_Witness ==
    /\ op = "best_guesses"
    /\ call.path = "mp"
    /\ call.mp = 2
    /\ Cardinality(solution_group.word_list) = 3
    /\ guess_group.word_list # call.words


\* C29: the count of the progress bar is advisory. While the workers run, it
\* changes only in the step of a worker that holds the lock, which adds the
\* guesses the worker counted and releases the lock; the lock is taken only
\* when it is free; the count never decreases and never passes the number
\* of guesses; and best_guesses ends in error exactly when a future has an
\* exception, whatever the count is: with no exception the count is the
\* number of guesses when the progress bar is closed, so close() does not
\* raise.
C29_CounterAdvisory ==
    /\ [][(op = "mp" /\ op' = "mp" /\ call'.count # call.count) =>
            /\ call.enabled
            /\ call.holder \in Running
            /\ call'.holder = 0
            /\ call'.count = call.count + call.local[call.holder]]_vars
    /\ [][(op = "mp" /\ call'.holder # call.holder) =>
            call.holder = 0 \/ call'.holder = 0]_vars
    /\ [][op = "mp" => call'.count >= call.count]_vars
    /\ [](op = "mp" => call.count <= call.length)
    /\ [][(op = "mp" /\ op' # "mp") =>
            /\ op' \in {"error", "best_guesses"}
            /\ op' = "error" <=> call.failed # {}
            /\ (op' = "best_guesses" /\ call.enabled) => call'.count = call.length]_vars

\* With the progress bar enabled, two workers each counted guesses under
\* the lock, the search went through both guess lists without the early
\* exit, and best_guesses returned with the count at the number of guesses.
C29_Witness ==
    /\ op = "best_guesses"
    /\ call.path = "mp"
    /\ call.enabled
    /\ call.mp = 2
    /\ call.phase = 3
    /\ call.failed = {}
    /\ call.ranked = call.length
    /\ call.ranked > Cardinality(solution_group.word_list)
    /\ call.count = call.length


\* The cache that save_guesses loads again from the file before it saves.
Reloaded == IF guesses_file.exists THEN Parsed(guesses_file) ELSE EmptyDict

\* C30: a save_guesses that saved into the cache in memory (after no turn
\* or after one) leaves what load_guesses returns for the turns of every
\* other key as it was in the cache the save loaded from the file.
C30_OtherKeysKept ==
    [][(op'.name = "save_guesses" /\ MeAfter.pc = "dump") =>
            \A key \in StoreTurns \ {op'.key} :
                load_guesses(MemoryAfter, key) = load_guesses(Reloaded, key)]_vars

====
